---- MODULE Spec2Model ----
(***************************************************************************)
(* A model of the exprscript evaluator (src/src/main.cpp): the AST with    *)
(* its static analyses, the State machine driven by step() / execute(),    *)
(* the mark / sweep-and-compact / relocate collector and State copying.    *)
(*                                                                         *)
(* Conventions.  A Location is a 0-based heap index, so heap slot l is     *)
(* heap[l + 1].  An AST node is identified by the path from the root (the  *)
(* sequence of child indices in _traverseSubtree order) together with the  *)
(* AST instance it belongs to.  Strings are sequences of one-character     *)
(* strings.  An Env is a sequence of <<name, Location>> pairs; the         *)
(* std::shared_ptr<Env> objects live in envStore and are named by index.   *)
(***************************************************************************)
EXTENDS Integers, Sequences, FiniteSets, TLC

VARIABLES
    prog,          \* the parsed program (the AST as a term)
    asts,          \* the AST instances: liveness and the literal nodes' loc
    envStore,      \* the shared_ptr<Env> targets, by identity
    m,             \* the State objects (1: run by execute(), 2: driven by step())
    gc_threshold,  \* execute()'s local gc_threshold (State 1)
    lastRelocation, \* the old-to-new map of the collection the last action ran, if any
    gcs,           \* number of collections execute() has run
    steps,         \* number of step() calls on State 2 that did not return false
    calls          \* number of step() calls made on a State at its terminal state

vars == <<prog, asts, envStore, m, gc_threshold, lastRelocation, gcs, steps, calls>>

----------------------------------------------------------------------------
(* Bounds of the model *)

\* largest N of the tail-recursive loop program
MaxLoopN == 2
\* largest argument of the non-tail recursive factorial program
MaxFactN == 2
\* step() calls explored at a terminal state
MaxIdleCalls == 2
MaxStrLen == 2
\* width of int in the model (TLC's own integers are 32 bits wide)
IntBits == 8

(* Program constants *)

\* execute(): int gc_threshold = numLiterals + 64
GcInitialSlack == 64

----------------------------------------------------------------------------
(* AST nodes *)

IntegerNode(v) == [kind |-> "Integer", val |-> v]
StringNode(v) == [kind |-> "String", val |-> v]
VariableNode(n) == [kind |-> "Variable", name |-> n]
LambdaNode(vs, e) == [kind |-> "Lambda", varList |-> vs, expr |-> e]
LetrecNode(ves, e) == [kind |-> "Letrec", varExprList |-> ves, expr |-> e]
IfNode(c, b1, b2) == [kind |-> "If", cond |-> c, branch1 |-> b1, branch2 |-> b2]
SequenceNode(es) == [kind |-> "Sequence", exprList |-> es]
IntrinsicCallNode(i, as) == [kind |-> "IntrinsicCall", intrinsic |-> i, argList |-> as]
ExprCallNode(e, as) == [kind |-> "ExprCall", expr |-> e, argList |-> as]
AtNode(v, e) == [kind |-> "At", var |-> v, expr |-> e]

\* the children of a node in the order of its _traverseSubtree
Children(n) ==
    CASE n.kind = "Lambda" -> n.varList \o <<n.expr>>
      [] n.kind = "Letrec" ->
            [i \in 1..(2 * Len(n.varExprList) + 1) |->
                IF i = 2 * Len(n.varExprList) + 1 THEN n.expr
                ELSE n.varExprList[(i + 1) \div 2][IF i % 2 = 1 THEN 1 ELSE 2]]
      [] n.kind = "If" -> <<n.cond, n.branch1, n.branch2>>
      [] n.kind = "Sequence" -> n.exprList
      [] n.kind = "IntrinsicCall" -> n.argList
      [] n.kind = "ExprCall" -> <<n.expr>> \o n.argList
      [] n.kind = "At" -> <<n.var, n.expr>>
      [] OTHER -> <<>>

RECURSIVE NodeAt(_, _)
NodeAt(n, path) ==
    IF path = <<>> THEN n ELSE NodeAt(Children(n)[Head(path)], Tail(path))

\* paths of the sub-expressions the evaluator pushes
LambdaBodyPath(p, n) == Append(p, Len(n.varList) + 1)
\* a variant of LetrecRhsPath: every binding layer evaluating the first right-hand side
LetrecRhsPathFirst(p, i) == Append(p, 2)

LetrecRhsPath(p, i) == Append(p, 2 * i)
LetrecBodyPath(p, n) == Append(p, 2 * Len(n.varExprList) + 1)
IfCondPath(p) == Append(p, 1)
\* a variant of IfBranch1Path: the second branch taken for a non-zero condition too
IfBranch1PathElse(p) == Append(p, 3)

IfBranch1Path(p) == Append(p, 2)
IfBranch2Path(p) == Append(p, 3)
SequenceElemPath(p, i) == Append(p, i)
\* a variant of IntrinsicArgPath: every argument layer evaluating the first argument
IntrinsicArgPathFirst(p, i) == Append(p, 1)

IntrinsicArgPath(p, i) == Append(p, i)
CallCalleePath(p) == Append(p, 1)
\* a variant of CallArgPath: every argument layer evaluating the first argument
CallArgPathFirst(p, i) == Append(p, 2)

CallArgPath(p, i) == Append(p, i + 1)
AtExprPath(p) == Append(p, 2)

----------------------------------------------------------------------------
(* Static analysis *)

SeqRange(s) == {s[i] : i \in 1..Len(s)}

\* a variant of DuplicateAt: only parameter lists checked
DuplicateAtLambdaOnly(n) ==
    n.kind = "Lambda" /\
        \E i, j \in 1..Len(n.varList) : i < j /\ n.varList[i].name = n.varList[j].name

\* checkDuplicate on one node
DuplicateAt(n) ==
    CASE n.kind = "Lambda" ->
            \E i, j \in 1..Len(n.varList) : i < j /\ n.varList[i].name = n.varList[j].name
      [] n.kind = "Letrec" ->
            \E i, j \in 1..Len(n.varExprList) :
                i < j /\ n.varExprList[i][1].name = n.varExprList[j][1].name
      [] OTHER -> FALSE

\* expr->traverse(topDown, checkDuplicate) panics
RECURSIVE checkDuplicate(_)
checkDuplicate(n) ==
    DuplicateAt(n) \/ \E i \in 1..Len(Children(n)) : checkDuplicate(Children(n)[i])

\* the node at which traverse(topDown, checkDuplicate) panics: a node is
\* visited before its children, the children from left to right
RECURSIVE FirstDuplicate(_, _)
FirstDuplicate(n, p) ==
    IF DuplicateAt(n) THEN p
    ELSE LET bad == {c \in 1..Len(Children(n)) : checkDuplicate(Children(n)[c])}
             c == CHOOSE c \in bad : \A d \in bad : c <= d
         IN  FirstDuplicate(Children(n)[c], Append(p, c))

\* the freeVars a node holds after computeFreeVars() has run on it
RECURSIVE computeFreeVars(_)
computeFreeVars(n) ==
    CASE n.kind = "Variable" -> {n.name}
      [] n.kind = "Lambda" ->
            computeFreeVars(n.expr) \ {n.varList[i].name : i \in 1..Len(n.varList)}
      [] n.kind = "Letrec" ->
            (computeFreeVars(n.expr) \cup
             UNION {computeFreeVars(n.varExprList[i][2]) : i \in 1..Len(n.varExprList)})
            \ {n.varExprList[i][1].name : i \in 1..Len(n.varExprList)}
      [] n.kind = "If" ->
            computeFreeVars(n.cond) \cup computeFreeVars(n.branch1)
                \cup computeFreeVars(n.branch2)
      [] n.kind = "Sequence" ->
            UNION {computeFreeVars(n.exprList[i]) : i \in 1..Len(n.exprList)}
      [] n.kind = "IntrinsicCall" ->
            UNION {computeFreeVars(n.argList[i]) : i \in 1..Len(n.argList)}
      [] n.kind = "ExprCall" ->
            computeFreeVars(n.expr) \cup
            UNION {computeFreeVars(n.argList[i]) : i \in 1..Len(n.argList)}
      [] n.kind = "At" -> computeFreeVars(n.expr)
      [] OTHER -> {}

\* a variant of freeVars: computeFreeVars() run on every node of the AST
freeVarsAllNodes(path) == computeFreeVars(NodeAt(prog, path))

\* the freeVars field of the node at path once the constructor has run
\* expr->computeFreeVars(): the call reaches the root and, from a node, the
\* children its computeFreeVars() calls; the parameters of a Lambda, the names
\* a Letrec binds and the name of an At are not among them and keep the empty
\* set they were constructed with
freeVars(path) ==
    LET parent == NodeAt(prog, SubSeq(path, 1, Len(path) - 1))
        i == path[Len(path)]
        visited ==
            IF path = <<>> THEN TRUE
            ELSE CASE parent.kind = "Lambda" -> i = Len(parent.varList) + 1
                   [] parent.kind = "Letrec" ->
                        i % 2 = 0 \/ i = 2 * Len(parent.varExprList) + 1
                   [] parent.kind = "At" -> i = 2
                   [] OTHER -> TRUE
    IN  IF visited THEN computeFreeVars(NodeAt(prog, path)) ELSE {}

\* a variant of ChildTailArg: computeTail never marking a child as being in tail position
ChildTailNever(n, i, t) == FALSE

\* a variant of ChildTailArg: every element of a Sequence given the Sequence's tail bit
ChildTailArgAnyElement(n, i, t) ==
    CASE n.kind = "Lambda" -> (i = Len(n.varList) + 1)
      [] n.kind = "Letrec" -> (i = 2 * Len(n.varExprList) + 1) /\ t
      [] n.kind = "If" -> (i > 1) /\ t
      [] n.kind = "Sequence" -> t
      [] OTHER -> FALSE

\* the argument computeTail passes to child i of node n whose own tail bit is t
ChildTailArg(n, i, t) ==
    CASE n.kind = "Lambda" -> (i = Len(n.varList) + 1)
      [] n.kind = "Letrec" -> (i = 2 * Len(n.varExprList) + 1) /\ t
      [] n.kind = "If" -> (i > 1) /\ t
      [] n.kind = "Sequence" -> (i = Len(n.exprList)) /\ t
      [] OTHER -> FALSE

\* the tail bit of the node at path after computeTail(parentTail) has run on n
RECURSIVE computeTail(_, _, _)
computeTail(n, parentTail, path) ==
    IF path = <<>> THEN parentTail
    ELSE computeTail(Children(n)[Head(path)],
                     ChildTailArg(n, Head(path), parentTail), Tail(path))

\* a variant of TailBit: the analysis started as if the whole program were in tail position
TailBitOfTailRoot(path) == computeTail(prog, TRUE, path)

\* the tail bit of a node of the analysed program: expr->computeTail(false)
TailBit(path) == computeTail(prog, FALSE, path)

----------------------------------------------------------------------------
(* Literals *)

Digits == <<"0", "1", "2", "3", "4", "5", "6", "7", "8", "9">>
IsDigit(c) == \E d \in 1..10 : Digits[d] = c
DigitVal(c) == (CHOOSE d \in 1..10 : Digits[d] = c) - 1

IntMax == 2 ^ (IntBits - 1) - 1
IntMin == -(2 ^ (IntBits - 1))

RECURSIVE DigitsValue(_, _)
DigitsValue(s, acc) ==
    IF s = <<>> \/ ~IsDigit(Head(s)) THEN acc
    ELSE DigitsValue(Tail(s), 10 * acc + DigitVal(Head(s)))

\* std::stoi on an integer token: optional sign, then digits; out of range throws
stoi(s) ==
    LET neg == s # <<>> /\ Head(s) = "-"
        body == IF s # <<>> /\ Head(s) \in {"-", "+"} THEN Tail(s) ELSE s
        v == IF neg THEN -DigitsValue(body, 0) ELSE DigitsValue(body, 0)
    IN  IF body = <<>> \/ ~IsDigit(Head(body)) THEN [ok |-> FALSE, value |-> 0]
        ELSE IF v > IntMax \/ v < IntMin THEN [ok |-> FALSE, value |-> 0]
        ELSE [ok |-> TRUE, value |-> v]

\* a variant of quoteBody: nothing escaped
quoteBodyRaw(s) == s

\* quote: wrap in double quotes, escaping backslash and double quote
RECURSIVE quoteBody(_)
quoteBody(s) ==
    IF s = <<>> THEN <<>>
    ELSE (IF Head(s) = "\\" THEN <<"\\", "\\">>
          ELSE IF Head(s) = "\"" THEN <<"\\", "\"">>
          ELSE <<Head(s)>>) \o quoteBody(Tail(s))

quote(s) == <<"\"">> \o quoteBody(s) \o <<"\"">>

\* the decoding loop of unquote, on the text between the outer quotes
RECURSIVE unquoteBody(_, _)
unquoteBody(s, r) ==
    IF s = <<>> THEN [ok |-> TRUE, val |-> r]
    ELSE IF Head(s) = "\\" THEN
        IF Len(s) >= 2 THEN
            LET c1 == s[2] IN
            IF c1 = "\\" THEN unquoteBody(Tail(Tail(s)), Append(r, "\\"))
            ELSE IF c1 = "\"" THEN unquoteBody(Tail(Tail(s)), Append(r, "\""))
            ELSE IF c1 = "t" THEN unquoteBody(Tail(Tail(s)), Append(r, "\t"))
            ELSE IF c1 = "n" THEN unquoteBody(Tail(Tail(s)), Append(r, "\n"))
            ELSE [ok |-> FALSE, val |-> <<>>]
        ELSE [ok |-> FALSE, val |-> <<>>]
    ELSE unquoteBody(Tail(s), Append(r, Head(s)))

unquote(s) ==
    IF ~(Len(s) >= 2 /\ s[1] = "\"" /\ s[Len(s)] = "\"")
    THEN [ok |-> FALSE, val |-> <<>>]
    ELSE unquoteBody(SubSeq(s, 2, Len(s) - 1), <<>>)

\* the literal nodes in the order traverse(topDown) visits them: the node
\* itself, then its children lo..hi from left to right
RECURSIVE LiteralPathsFrom(_, _, _, _)
RECURSIVE LiteralPaths(_, _)
LiteralPathsFrom(n, p, lo, hi) ==
    IF lo > hi THEN <<>>
    ELSE IF lo = hi THEN LiteralPaths(Children(n)[lo], Append(p, lo))
    ELSE LET mid == (lo + hi) \div 2
         IN  LiteralPathsFrom(n, p, lo, mid) \o LiteralPathsFrom(n, p, mid + 1, hi)
LiteralPaths(n, p) ==
    (IF n.kind \in {"Integer", "String"} THEN <<p>> ELSE <<>>)
        \o LiteralPathsFrom(n, p, 1, Len(Children(n)))

----------------------------------------------------------------------------
(* Runtime values *)

Void == [tag |-> "Void"]
Integer(v) == [tag |-> "Integer", value |-> v]
String(v) == [tag |-> "String", value |-> v]
Closure(e, f) == [tag |-> "Closure", env |-> e, fun |-> f]

\* const ExprNode *: an AST instance and the path of the node in it
NodeRef(a, p) == [ast |-> a, path |-> p]
\* nullptr
NullExpr == [ast |-> 0, path |-> <<>>]
\* *ref: the node is read in the AST instance the pointer leads into
Node(ref) == NodeAt(asts[ref.ast].root, ref.path)

\* Location resultLoc; has no initializer: its value is indeterminate until assigned
Uninit == -1

\* a Layer as its constructor builds it: pc = 0, local empty
Layer(e, x, f) == [env |-> e, expr |-> x, frame |-> f, pc |-> 0, local |-> <<>>]

\* a variant of lookup: the scan runs from the oldest binding to the newest
lookupOldest(name, env) ==
    LET hits == {i \in 1..Len(env) : env[i][1] = name}
    IN  IF hits = {} THEN <<>>
        ELSE <<env[CHOOSE i \in hits : \A j \in hits : i <= j][2]>>

\* lookup: scan from the newest binding to the oldest; <<>> is std::nullopt
lookup(name, env) ==
    LET hits == {i \in 1..Len(env) : env[i][1] = name}
    IN  IF hits = {} THEN <<>>
        ELSE <<env[CHOOSE i \in hits : \A j \in hits : j <= i][2]>>

Top(M) == M.stack[Len(M.stack)]
PopBack(s) == SubSeq(s, 1, Len(s) - 1)
HeapAt(M, l) == M.heap[l + 1]
InHeap(M, l) == l >= 0 /\ l < Len(M.heap)

\* a State that does not exist (yet)
NoState ==
    [phase |-> "none", expr |-> 0, stack |-> <<>>, heap |-> <<>>, numLiterals |-> 0,
     resultLoc |-> Uninit, ret |-> "none", err |-> "", errAt |-> NullExpr, trace |-> <<>>]

----------------------------------------------------------------------------
(* State::State(std::string source), after lex and parse delivered program p *)

\* the Value preAllocate stores for a literal node
LiteralValue(n) ==
    IF n.kind = "Integer" THEN Integer(stoi(n.val).value) ELSE String(unquote(n.val).val)

LiteralOk(n) ==
    IF n.kind = "Integer" THEN stoi(n.val).ok ELSE unquote(n.val).ok

\* the loc fields preAllocate writes: the k-th literal visited gets Location k - 1
PreAllocatedLocs(p) ==
    LET lits == LiteralPaths(p, <<>>)
    IN  [q \in SeqRange(lits) |-> (CHOOSE k \in 1..Len(lits) : lits[k] = q) - 1]

\* the constructed State: a is the AST instance it owns, e the main frame's Env
Construct(p, a, e) ==
    LET lits == LiteralPaths(p, <<>>) IN
    IF checkDuplicate(p)
    THEN [NoState EXCEPT !.phase = "failed", !.err = "sema",
                         !.errAt = NodeRef(a, FirstDuplicate(p, <<>>))]
    ELSE IF \E k \in 1..Len(lits) : ~LiteralOk(NodeAt(p, lits[k]))
    THEN [NoState EXCEPT !.phase = "failed", !.err = "literal"]
    ELSE [phase |-> "live",
          expr |-> a,
          stack |-> <<[Layer(e, NullExpr, TRUE) EXCEPT !.frame = TRUE],
                      Layer(e, NodeRef(a, <<>>), FALSE)>>,
          heap |-> [k \in 1..Len(lits) |-> LiteralValue(NodeAt(p, lits[k]))],
          numLiterals |-> Len(lits),
          resultLoc |-> Uninit,
          ret |-> "none",
          err |-> "",
          errAt |-> NullExpr,
          trace |-> <<>>]

\* the AST instance the constructor builds and annotates; when checkDuplicate
\* panics no literal node has got its loc
AstOf(p) ==
    [alive |-> TRUE,
     root |-> p,
     loc |-> IF checkDuplicate(p)
             THEN [q \in SeqRange(LiteralPaths(p, <<>>)) |-> -1]
             ELSE PreAllocatedLocs(p)]

\* inode->loc / snode->loc read through a node pointer
NodeLoc(ref) == asts[ref.ast].loc[ref.path]

----------------------------------------------------------------------------
(* Memory management *)

\* _new<V>(...) and _moveNew: push_back, return heap.size() - 1
NewLoc(M) == Len(M.heap)
Alloc(M, v) == [M EXCEPT !.heap = Append(@, v)]

----------------------------------------------------------------------------
(* Intrinsics *)

\* the value of an int expression, kept in the width of int
Wrap(v) == ((v - IntMin) % (2 ^ IntBits)) + IntMin

\* C++ integer division truncates toward zero
TruncDiv(a, b) ==
    LET q == (IF a < 0 THEN -a ELSE a) \div (IF b < 0 THEN -b ELSE b)
    IN  IF (a < 0) # (b < 0) THEN -q ELSE q
TruncMod(a, b) == a - b * TruncDiv(a, b)

\* _typecheck<Alt...>: the arity and, unless Alt is Value, each argument's tag
typecheck(M, tags, args) ==
    /\ Len(args) = Len(tags)
    /\ \A i \in 1..Len(tags) : tags[i] = "Value" \/ HeapAt(M, args[i]).tag = tags[i]

Bool(b) == Integer(IF b THEN 1 ELSE 0)
Ok(v) == [ok |-> TRUE, value |-> v, msg |-> "", traced |-> FALSE]
\* _errorStack(); panic("runtime", s, sl)
Fail(s) == [ok |-> FALSE, value |-> Void, msg |-> s, traced |-> TRUE]
\* panic(..., s, sl) alone
FailBare(s) == [ok |-> FALSE, value |-> Void, msg |-> s, traced |-> FALSE]

\* whether the int arithmetic of an Integer intrinsic is defined: + - * must
\* not overflow, / and % must not divide INT_MIN by -1 (the zero divisor is
\* tested before the division)
ArithDefined(name, a, b) ==
    CASE name = ".+" -> a + b >= IntMin /\ a + b <= IntMax
      [] name = ".-" -> a - b >= IntMin /\ a - b <= IntMax
      [] name = ".*" -> a * b >= IntMin /\ a * b <= IntMax
      [] name \in {"./", ".%"} -> ~(a = IntMin /\ b = -1)
      [] OTHER -> TRUE

IntArgs == <<"Integer", "Integer">>
StrArgs == <<"String", "String">>

\* the characters of the model's strings, in char order
CharOrder == <<"\t", "\n", " ", "\"", "\\", "a", "b", "h", "i", "n", "t">>
CharRank(c) == CHOOSE i \in 1..Len(CharOrder) : CharOrder[i] = c

\* operator< of std::string: lexicographic
RECURSIVE StrLess(_, _)
StrLess(a, b) ==
    IF b = <<>> THEN FALSE
    ELSE IF a = <<>> THEN TRUE
    ELSE IF Head(a) = Head(b) THEN StrLess(Tail(a), Tail(b))
    ELSE CharRank(Head(a)) < CharRank(Head(b))

\* binary Integer intrinsics after _typecheck<Integer, Integer>
IntBinary(name, a, b) ==
    CASE name = ".+" -> Ok(Integer(Wrap(a + b)))
      [] name = ".-" -> Ok(Integer(Wrap(a - b)))
      [] name = ".*" -> Ok(Integer(Wrap(a * b)))
      [] name = "./" ->
            IF b = 0 THEN FailBare("division by zero") ELSE Ok(Integer(Wrap(TruncDiv(a, b))))
      [] name = ".%" ->
            IF b = 0 THEN FailBare("division by zero") ELSE Ok(Integer(Wrap(TruncMod(a, b))))
      [] name = ".<" -> Ok(Bool(a < b))
      [] name = ".<=" -> Ok(Bool(a <= b))
      [] name = ".>" -> Ok(Bool(a > b))
      [] name = ".>=" -> Ok(Bool(a >= b))
      [] name = ".=" -> Ok(Bool(a = b))
      [] name = "./=" -> Ok(Bool(a # b))
      [] name = ".and" -> Ok(Bool(a # 0 /\ b # 0))
      [] name = ".or" -> Ok(Bool(a # 0 \/ b # 0))

IntBinaryNames ==
    {".+", ".-", ".*", "./", ".%", ".<", ".<=", ".>", ".>=", ".=", "./=", ".and", ".or"}

\* binary String intrinsics after _typecheck<String, String>
StrBinary(name, a, b) ==
    CASE name = ".s+" -> Ok(String(a \o b))
      [] name = ".s<" -> Ok(Bool(StrLess(a, b)))
      [] name = ".s<=" -> Ok(Bool(~StrLess(b, a)))
      [] name = ".s>" -> Ok(Bool(StrLess(b, a)))
      [] name = ".s>=" -> Ok(Bool(~StrLess(a, b)))
      [] name = ".s=" -> Ok(Bool(a = b))
      [] name = ".s/=" -> Ok(Bool(a # b))

StrBinaryNames == {".s+", ".s<", ".s<=", ".s>", ".s>=", ".s=", ".s/="}

\* parse(lex(source)), as a function of the source text, on the sources the
\* model's programs hand to .eval:
\*   lambda () 1        ((lambda (x) lambda () x) 5)        (.+ 1 2)
parse ==
    (<<"l", "a", "m", "b", "d", "a", " ", "(", ")", " ", "1">> :>
        LambdaNode(<<>>, IntegerNode(<<"1">>)))
    @@ (<<"(", "(", "l", "a", "m", "b", "d", "a", " ", "(", "x", ")", " ",
          "l", "a", "m", "b", "d", "a", " ", "(", ")", " ", "x", ")", " ", "5", ")">> :>
        ExprCallNode(LambdaNode(<<VariableNode("x")>>, LambdaNode(<<>>, VariableNode("x"))),
                     <<IntegerNode(<<"5">>)>>))
    @@ (<<"(", ".", "+", " ", "1", " ", "2", ")">> :>
        IntrinsicCallNode(".+", <<IntegerNode(<<"1">>), IntegerNode(<<"2">>)>>))

RECURSIVE step(_, _)

\* execute() on the State .eval constructs: step() until it returns false (the
\* heap of the sources above stays below gc_threshold: no collection runs)
RECURSIVE execute(_, _)
execute(M, E) ==
    LET r == step(M, E)
    IN  IF r.m.ret = "true" THEN execute(r.m, r.store) ELSE r.m

\* _callIntrinsic (the I/O intrinsics, .s->i and .i->s are not modelled: no
\* program of the model uses them).  The State .eval constructs builds its AST
\* in asts[M.expr + 2] and runs on Envs of its own; what .eval returns is
\* getResult(), the copy of that State's heap[resultLoc]
callIntrinsic(M, name, args) ==
    LET v(i) == HeapAt(M, args[i]).value
        typeError == Fail("type error on intrinsic call")
    IN
    CASE name = ".void" -> IF typecheck(M, <<>>, args) THEN Ok(Void) ELSE typeError
      [] name \in IntBinaryNames ->
            IF typecheck(M, IntArgs, args) THEN IntBinary(name, v(1), v(2)) ELSE typeError
      [] name = ".not" ->
            IF typecheck(M, <<"Integer">>, args) THEN Ok(Bool(v(1) = 0)) ELSE typeError
      [] name \in StrBinaryNames ->
            IF typecheck(M, StrArgs, args) THEN StrBinary(name, v(1), v(2)) ELSE typeError
      [] name = ".s||" ->
            IF typecheck(M, <<"String">>, args) THEN Ok(Integer(Len(v(1)))) ELSE typeError
      [] name = ".s[]" ->
            IF typecheck(M, <<"String", "Integer", "Integer">>, args)
            THEN (IF /\ 0 <= v(2) /\ v(2) < Len(v(1))
                     /\ 0 <= v(3) /\ v(3) < Len(v(1))
                     /\ v(2) <= v(3)
                  THEN Ok(String(SubSeq(v(1), v(2) + 1, v(3))))
                  ELSE FailBare("invalid substring range"))
            ELSE typeError
      [] name = ".quote" ->
            IF typecheck(M, <<"String">>, args) THEN Ok(String(quote(v(1)))) ELSE typeError
      [] name = ".unquote" ->
            IF typecheck(M, <<"String">>, args)
            THEN (IF unquote(v(1)).ok THEN Ok(String(unquote(v(1)).val))
                  ELSE FailBare("unquote"))
            ELSE typeError
      [] name = ".type" ->
            IF typecheck(M, <<"Value">>, args)
            THEN Ok(Integer(CASE HeapAt(M, args[1]).tag = "Void" -> 0
                              [] HeapAt(M, args[1]).tag = "Integer" -> 1
                              [] OTHER -> 2))
            ELSE typeError
      [] name = ".eval" ->
            IF typecheck(M, <<"String">>, args)
            THEN LET getResult(state) == HeapAt(state, state.resultLoc)
                 IN  Ok(getResult(execute(Construct(parse[v(1)], M.expr + 2, 1), << <<>> >>)))
            ELSE typeError
      [] OTHER -> Fail("unrecognized intrinsic call")

----------------------------------------------------------------------------
(* State::step(), one operator per node kind.  Each takes the State M with *)
(* top layer L and the Env store E and yields [m |-> M', store |-> E'].    *)

Res(M, E) == [m |-> M, store |-> E]
\* _getFrameSLs: the frame layers' source locations from the bottom of the
\* stack up, a location being named by its node (NullExpr: the main frame's 1:1)
getFrameSLs(M) ==
    LET F(k) == {j \in 1..k : M.stack[j].frame}
        frames == F(Len(M.stack))
    IN  [i \in 1..Cardinality(frames) |->
            M.stack[CHOOSE j \in frames : Cardinality(F(j)) = i].expr]
\* _errorStack: the trace goes to stderr
errorStack(M) == [M EXCEPT !.trace = getFrameSLs(M)]
\* panic("runtime", msg, sl): the exception leaves step()
PanicOnly(M, E, msg) ==
    Res([M EXCEPT !.ret = "error", !.err = msg,
                  !.errAt = IF msg = "unquote" THEN NullExpr ELSE Top(M).expr], E)
\* a variant of Panic: the failing layer is popped before the exception leaves step()
PanicUnwinding(M, E, msg) ==
    PanicOnly(errorStack([M EXCEPT !.stack = PopBack(@)]), E, msg)

\* _errorStack(); panic("runtime", msg, sl)
Panic(M, E, msg) == PanicOnly(errorStack(M), E, msg)
SetTop(M, L) == [M EXCEPT !.stack[Len(M.stack)] = L]
\* stack.emplace_back(env, expr) / stack.emplace_back(env, expr, true)
Push(M, L) == [M EXCEPT !.stack = Append(@, L)]
\* resultLoc = loc; stack.pop_back()
Publish(M, loc) == [M EXCEPT !.resultLoc = loc, !.stack = PopBack(@)]

StepLiteral(M, E, L) == Res(Publish(M, NodeLoc(L.expr)), E)

StepVariable(M, E, L) ==
    LET loc == lookup(Node(L.expr).name, E[L.env])
    IN  IF loc = <<>> THEN Panic(M, E, "undefined variable")
        ELSE Res(Publish(M, loc[1]), E)

\* a variant of CaptureScan: of each used name the oldest binding captured
CaptureScanOldest(env, i, usedVars, savedEnv) ==
    LET idx == {b \in 1..Len(env) :
                    env[b][1] \in usedVars /\ \A c \in 1..(b - 1) : env[c][1] # env[b][1]}
    IN  [j \in 1..Cardinality(idx) |->
            env[CHOOSE b \in idx : Cardinality({c \in idx : c <= b}) = j]]

\* the reverse scan that copies the statically used part of the env; each
\* binding found is push_back'ed and the result reversed at the end
RECURSIVE CaptureScan(_, _, _, _)
CaptureScan(env, i, usedVars, savedEnv) ==
    IF i = 0 \/ usedVars = {} THEN savedEnv
    ELSE IF env[i][1] \in usedVars
         THEN CaptureScan(env, i - 1, usedVars \ {env[i][1]}, <<env[i]>> \o savedEnv)
         ELSE CaptureScan(env, i - 1, usedVars, savedEnv)

StepLambda(M, E, L) ==
    LET savedEnv == CaptureScan(E[L.env], Len(E[L.env]), computeFreeVars(Node(L.expr)), <<>>)
    IN  Res(Publish(Alloc(M, Closure(savedEnv, L.expr)), NewLoc(M)), E)

\* a variant of LetrecRecord: the result of the right-hand side not stored
LetrecRecordNone(M, loc) == M

\* a variant of LetrecRecord: the Letrec overwrite with its operands exchanged
LetrecRecordSwapped(M, loc) == [M EXCEPT !.heap[M.resultLoc + 1] = HeapAt(M, loc)]

\* "unified argument recording" of Letrec: heap[loc] = heap[resultLoc]
LetrecRecord(M, loc) == [M EXCEPT !.heap[loc + 1] = HeapAt(M, M.resultLoc)]

\* a variant of LetrecBindings: every name of the Letrec bound to one slot
LetrecBindingsShared(M, n) ==
    [i \in 1..Len(n.varExprList) |-> <<n.varExprList[i][1].name, Len(M.heap)>>]

\* the bindings Letrec pushes at pc = 0: one fresh Void slot per name
LetrecBindings(M, n) ==
    [i \in 1..Len(n.varExprList) |-> <<n.varExprList[i][1].name, Len(M.heap) + i - 1>>]

\* a variant of LetrecPop: a finished Letrec leaving its bindings in the env
LetrecPopNone(env, nParams) == env

\* a variant of LetrecPop: a finished Letrec removing one binding only
LetrecPopOne(env, nParams) == SubSeq(env, 1, Len(env) - (IF nParams > 0 THEN 1 ELSE 0))

\* finish letrec: nParams times layer.env->pop_back()
LetrecPop(env, nParams) == SubSeq(env, 1, Len(env) - nParams)

StepLetrec(M, E, L) ==
    LET n == Node(L.expr)
        N == Len(n.varExprList)
        recording == L.pc > 1 /\ L.pc <= N + 1
        varName == n.varExprList[L.pc - 1][1].name
        loc == lookup(varName, E[L.env])
        M1 == IF recording THEN LetrecRecord(M, loc[1]) ELSE M
        next == [L EXCEPT !.pc = @ + 1]
    IN
    IF recording /\ loc = <<>> THEN Panic(M, E, "undefined variable")
    ELSE IF L.pc = 0 THEN
        Res([SetTop(M1, next) EXCEPT !.heap = @ \o [i \in 1..N |-> Void]],
            [E EXCEPT ![L.env] = @ \o LetrecBindings(M, n)])
    ELSE IF L.pc <= N THEN
        Res(Push(SetTop(M1, next),
                 Layer(L.env, NodeRef(L.expr.ast, LetrecRhsPath(L.expr.path, L.pc)), FALSE)), E)
    ELSE IF L.pc = N + 1 THEN
        Res(Push(SetTop(M1, next),
                 Layer(L.env, NodeRef(L.expr.ast, LetrecBodyPath(L.expr.path, n)), FALSE)), E)
    ELSE
        Res([M1 EXCEPT !.stack = PopBack(@)],
            [E EXCEPT ![L.env] = LetrecPop(@, N)])

StepIf(M, E, L) ==
    LET next == [L EXCEPT !.pc = @ + 1]
        child(p) == Layer(L.env, NodeRef(L.expr.ast, p), FALSE)
        c == HeapAt(M, M.resultLoc)
    IN
    IF L.pc = 0 THEN Res(Push(SetTop(M, next), child(IfCondPath(L.expr.path))), E)
    ELSE IF L.pc = 1 THEN
        IF c.tag # "Integer" THEN Panic(SetTop(M, next), E, "wrong cond type")
        ELSE IF c.value # 0
             THEN Res(Push(SetTop(M, next), child(IfBranch1Path(L.expr.path))), E)
             ELSE Res(Push(SetTop(M, next), child(IfBranch2Path(L.expr.path))), E)
    ELSE Res([M EXCEPT !.stack = PopBack(@)], E)

StepSequence(M, E, L) ==
    LET n == Node(L.expr) IN
    IF L.pc < Len(n.exprList) THEN
        Res(Push(SetTop(M, [L EXCEPT !.pc = @ + 1]),
                 Layer(L.env, NodeRef(L.expr.ast, SequenceElemPath(L.expr.path, L.pc + 1)),
                       FALSE)), E)
    ELSE Res([M EXCEPT !.stack = PopBack(@)], E)

StepIntrinsicCall(M, E, L) ==
    LET n == Node(L.expr)
        N == Len(n.argList)
        L1 == IF L.pc > 0 /\ L.pc <= N THEN [L EXCEPT !.local = Append(@, M.resultLoc)] ELSE L
        M1 == SetTop(M, L1)
        \* the exception of _callIntrinsic leaves step(); else
        \* resultLoc = _moveNew(std::move(value)); stack.pop_back()
        finish(r) ==
            IF ~r.ok THEN (IF r.traced THEN Panic(M1, E, r.msg) ELSE PanicOnly(M1, E, r.msg))
            ELSE Res(Publish(Alloc(M1, r.value), NewLoc(M1)), E)
    IN
    IF L.pc < N THEN
        Res(Push(SetTop(M, [L1 EXCEPT !.pc = @ + 1]),
                 Layer(L.env, NodeRef(L.expr.ast, IntrinsicArgPath(L.expr.path, L.pc + 1)),
                       FALSE)), E)
    ELSE finish(callIntrinsic(M1, n.intrinsic, L1.local))

\* a variant of CallEnv: dynamic scope: the new frame extends the caller's environment
CallEnvOfCaller(closure, layer) ==
    LET ps == Node(closure.fun).varList
    IN  envStore[layer.env] \o [i \in 1..Len(ps) |-> <<ps[i].name, layer.local[i + 1]>>]

\* a variant of CallEnv: the parameters bound to the argument Locations in reverse order
CallEnvReversed(closure, layer) ==
    LET ps == Node(closure.fun).varList
    IN  closure.env \o [i \in 1..Len(ps) |-> <<ps[i].name, layer.local[Len(ps) + 2 - i]>>]

\* newEnv: a copy of the closure's env, then one (parameter, argument Location) each
CallEnv(closure, layer) ==
    LET ps == Node(closure.fun).varList
    IN  closure.env \o [i \in 1..Len(ps) |-> <<ps[i].name, layer.local[i + 1]>>]

\* tail call optimization: pop down to the nearest frame, then pop the frame
RECURSIVE PopToFrame(_)
PopToFrame(stack) ==
    IF ~stack[Len(stack)].frame THEN PopToFrame(PopBack(stack)) ELSE stack

\* a variant of TailCallPop: the frame itself left on the stack
TailCallPopKeepFrame(stack) == PopToFrame(stack)

TailCallPop(stack) == PopBack(PopToFrame(stack))

\* a variant of CallStep: the parameters appended to the Closure's own env
\* (newEnv a reference to closure.env, not a copy)
CallStepInPlace(M, E, L) ==
    LET next == [L EXCEPT !.pc = @ + 1]
        M1 == SetTop(M, next)
        callee == HeapAt(M, L.local[1])
        body == NodeRef(callee.fun.ast, LambdaBodyPath(callee.fun.path, Node(callee.fun)))
        kept == IF (IF asts[L.expr.ast].root = prog THEN TailBit(L.expr.path)
                    ELSE computeTail(asts[L.expr.ast].root, FALSE, L.expr.path))
                THEN TailCallPop(M1.stack) ELSE M1.stack
        newId == Len(E) + 1
    IN
    IF callee.tag # "Closure" THEN Panic(M1, E, "calling a non-callable")
    ELSE IF Len(L.local) - 1 # Len(Node(callee.fun).varList)
    THEN Panic(M1, E, "wrong number of arguments")
    ELSE Res([M1 EXCEPT !.stack = Append(kept, Layer(newId, body, TRUE)),
                        !.heap[L.local[1] + 1].env = CallEnv(callee, L)],
             Append(E, CallEnv(callee, L)))

\* the call step of an ExprCall: pc == argList.size() + 2
CallStep(M, E, L) ==
    LET next == [L EXCEPT !.pc = @ + 1]
        M1 == SetTop(M, next)
        callee == HeapAt(M, L.local[1])
        body == NodeRef(callee.fun.ast, LambdaBodyPath(callee.fun.path, Node(callee.fun)))
        kept == IF (IF asts[L.expr.ast].root = prog THEN TailBit(L.expr.path)
                    ELSE computeTail(asts[L.expr.ast].root, FALSE, L.expr.path))
                THEN TailCallPop(M1.stack) ELSE M1.stack
        newId == Len(E) + 1
    IN
    IF callee.tag # "Closure" THEN Panic(M1, E, "calling a non-callable")
    ELSE IF Len(L.local) - 1 # Len(Node(callee.fun).varList)
    THEN Panic(M1, E, "wrong number of arguments")
    ELSE Res([M1 EXCEPT !.stack = Append(kept, Layer(newId, body, TRUE))],
             Append(E, CallEnv(callee, L)))

\* a variant of StepExprCall: the callee checked as soon as it has been evaluated
StepExprCallEager(M, E, L) ==
    LET n == Node(L.expr)
        N == Len(n.argList)
        L1 == IF L.pc > 2 /\ L.pc <= N + 2 THEN [L EXCEPT !.local = Append(@, M.resultLoc)]
              ELSE L
        next == [L1 EXCEPT !.pc = @ + 1]
        child(p) == Layer(L.env, NodeRef(L.expr.ast, p), FALSE)
    IN
    IF L.pc = 0 THEN Res(Push(SetTop(M, next), child(CallCalleePath(L.expr.path))), E)
    ELSE IF L.pc = 1 THEN
        IF HeapAt(M, M.resultLoc).tag # "Closure"
        THEN Panic(M, E, "calling a non-callable")
        ELSE Res(SetTop(M, [next EXCEPT !.local = Append(@, M.resultLoc)]), E)
    ELSE IF L.pc <= N + 1 THEN
        Res(Push(SetTop(M, next), child(CallArgPath(L.expr.path, L.pc - 1))), E)
    ELSE IF L.pc = N + 2 THEN CallStep(SetTop(M, L1), E, L1)
    ELSE Res([M EXCEPT !.stack = PopBack(@)], E)

StepExprCall(M, E, L) ==
    LET n == Node(L.expr)
        N == Len(n.argList)
        L1 == IF L.pc > 2 /\ L.pc <= N + 2 THEN [L EXCEPT !.local = Append(@, M.resultLoc)]
              ELSE L
        next == [L1 EXCEPT !.pc = @ + 1]
        child(p) == Layer(L.env, NodeRef(L.expr.ast, p), FALSE)
    IN
    IF L.pc = 0 THEN Res(Push(SetTop(M, next), child(CallCalleePath(L.expr.path))), E)
    ELSE IF L.pc = 1 THEN
        Res(SetTop(M, [next EXCEPT !.local = Append(@, M.resultLoc)]), E)
    ELSE IF L.pc <= N + 1 THEN
        Res(Push(SetTop(M, next), child(CallArgPath(L.expr.path, L.pc - 1))), E)
    ELSE IF L.pc = N + 2 THEN CallStep(SetTop(M, L1), E, L1)
    ELSE Res([M EXCEPT !.stack = PopBack(@)], E)

\* a variant of StepAt: the result a fresh slot holding a copy of the Value
StepAtCopy(M, E, L) ==
    LET c == HeapAt(M, M.resultLoc)
        loc == lookup(Node(L.expr).var.name, c.env)
    IN
    IF L.pc = 0 THEN
        Res(Push(SetTop(M, [L EXCEPT !.pc = @ + 1]),
                 Layer(L.env, NodeRef(L.expr.ast, AtExprPath(L.expr.path)), FALSE)), E)
    ELSE IF c.tag # "Closure" THEN Panic(M, E, "@ wrong type")
    ELSE IF loc = <<>> THEN Panic(M, E, "undefined variable")
    ELSE Res(Publish(Alloc(M, HeapAt(M, loc[1])), NewLoc(M)), E)

StepAt(M, E, L) ==
    LET c == HeapAt(M, M.resultLoc)
        loc == lookup(Node(L.expr).var.name, c.env)
    IN
    IF L.pc = 0 THEN
        Res(Push(SetTop(M, [L EXCEPT !.pc = @ + 1]),
                 Layer(L.env, NodeRef(L.expr.ast, AtExprPath(L.expr.path)), FALSE)), E)
    ELSE IF c.tag # "Closure" THEN Panic(M, E, "@ wrong type")
    ELSE IF loc = <<>> THEN Panic(M, E, "undefined variable")
    ELSE Res(Publish(M, loc[1]), E)

\* the Locations an IntrinsicCall layer on top of M passes to _callIntrinsic
IntrinsicArgs(M) ==
    IF Top(M).pc > 0 THEN Append(Top(M).local, M.resultLoc) ELSE Top(M).local

\* whether step() on M stays within defined behaviour: every heap slot it reads
\* or writes exists, the node it reads belongs to a live AST, the Env a Letrec
\* shrinks holds the bindings it pops, and its int arithmetic is defined
Defined(M, E) ==
    LET L == Top(M)
        n == Node(L.expr)
        env == E[L.env]
        found == lookup(n.varExprList[L.pc - 1][1].name, env)
    IN
    IF L.expr = NullExpr THEN TRUE
    ELSE /\ asts[L.expr.ast].alive
         /\ CASE n.kind = "Letrec" ->
                  /\ (L.pc > 1 /\ L.pc <= Len(n.varExprList) + 1 /\ found # <<>>)
                          => InHeap(M, found[1]) /\ InHeap(M, M.resultLoc)
                  /\ L.pc > Len(n.varExprList) + 1 => Len(env) >= Len(n.varExprList)
              [] n.kind = "If" -> L.pc = 1 => InHeap(M, M.resultLoc)
              [] n.kind = "IntrinsicCall" ->
                  L.pc >= Len(n.argList) =>
                      /\ \A i \in 1..Len(L.local) : InHeap(M, L.local[i])
                      /\ L.pc > 0 => InHeap(M, M.resultLoc)
                      /\ (/\ n.intrinsic \in IntBinaryNames
                          /\ typecheck(M, IntArgs, IntrinsicArgs(M)))
                            => ArithDefined(n.intrinsic,
                                            HeapAt(M, IntrinsicArgs(M)[1]).value,
                                            HeapAt(M, IntrinsicArgs(M)[2]).value)
              [] n.kind = "ExprCall" ->
                  L.pc = Len(n.argList) + 2 =>
                      /\ InHeap(M, L.local[1])
                      /\ HeapAt(M, L.local[1]).tag = "Closure"
                              => asts[HeapAt(M, L.local[1]).fun.ast].alive
              [] n.kind = "At" -> L.pc > 0 => InHeap(M, M.resultLoc)
              [] OTHER -> TRUE

\* a step() whose behaviour is undefined: nothing is known of the State afterwards
Undefined(M) == [M EXCEPT !.phase = "undefined"]

\* a variant of StepMainFrame: the step at the sentinel allocates a Void slot
StepMainFrameAllocating(M, E) ==
    Res([M EXCEPT !.ret = "false", !.err = "", !.heap = Append(@, Void)], E)

\* main frame; end of evaluation: return false
StepMainFrame(M, E) == Res([M EXCEPT !.ret = "false", !.err = ""], E)

\* bool step(): ret records what the call returned ("false", "true") or that it threw
step(M, E) ==
    LET L == Top(M)
        M0 == [M EXCEPT !.ret = "true", !.err = "", !.errAt = NullExpr, !.trace = <<>>]
        kind == Node(L.expr).kind
    IN
    IF L.expr = NullExpr THEN StepMainFrame(M, E)
    ELSE CASE kind \in {"Integer", "String"} -> StepLiteral(M0, E, L)
           [] kind = "Variable" -> StepVariable(M0, E, L)
           [] kind = "Lambda" -> StepLambda(M0, E, L)
           [] kind = "Letrec" -> StepLetrec(M0, E, L)
           [] kind = "If" -> StepIf(M0, E, L)
           [] kind = "Sequence" -> StepSequence(M0, E, L)
           [] kind = "IntrinsicCall" -> StepIntrinsicCall(M0, E, L)
           [] kind = "ExprCall" -> StepExprCall(M0, E, L)
           [] kind = "At" -> StepAt(M0, E, L)
           [] OTHER -> Panic(M0, E, "unrecognized AST node")

----------------------------------------------------------------------------
(* Garbage collection *)

EnvLocs(env) == {env[i][2] : i \in 1..Len(env)}

\* traverseLocation: visit every location reachable through Closure envs
RECURSIVE traverseLocation(_, _, _)
traverseLocation(M, visited, todo) ==
    IF todo \subseteq visited THEN visited
    ELSE LET new == todo \ visited
         IN  traverseLocation(M, visited \cup new,
                UNION {IF HeapAt(M, l).tag = "Closure" THEN EnvLocs(HeapAt(M, l).env) ELSE {}
                       : l \in new})

\* the roots _mark starts from on the stack: frame layers' envs, every layer's local
StackRoots(M, E) ==
    UNION {(IF M.stack[k].frame THEN EnvLocs(E[M.stack[k].env]) ELSE {})
           \cup SeqRange(M.stack[k].local) : k \in 1..Len(M.stack)}

\* the root read from resultLoc; g is what an indeterminate resultLoc happens to hold
ResultRoot(M, g) ==
    IF M.resultLoc # Uninit THEN {M.resultLoc}
    ELSE IF InHeap(M, g) THEN {g} ELSE {}

\* a variant of mark: the roots visited, the Closures' envs not followed
markRootsOnly(M, E, g) == StackRoots(M, E) \cup ResultRoot(M, g)

mark(M, E, g) == traverseLocation(M, {}, StackRoots(M, E) \cup ResultRoot(M, g))

\* one iteration of the while loop of _sweepAndCompact at index j; w holds the
\* heap, the write index i and the relocation map
SweepAt(w, visited, j) ==
    IF j \in visited THEN
        IF w.i < j
        THEN [heap |-> [w.heap EXCEPT ![w.i + 1] = w.heap[j + 1]], i |-> w.i + 1,
              relocation |-> (j :> w.i) @@ w.relocation]
        ELSE [w EXCEPT !.i = @ + 1]
    ELSE w

\* the iterations for j = lo .. hi, in order
RECURSIVE SweepLoop(_, _, _, _)
SweepLoop(w, visited, lo, hi) ==
    IF lo > hi THEN w
    ELSE IF lo = hi THEN SweepAt(w, visited, lo)
    ELSE LET mid == (lo + hi) \div 2
             left == SweepLoop(w, visited, lo, mid)
         IN  \* the test only forces the left half to be evaluated first
             IF left.i <= hi THEN SweepLoop(left, visited, mid + 1, hi) ELSE left

\* a variant of sweepAndCompact: the sweep starting at slot 0 instead of numLiterals
SweepFromZero(M, visited) ==
    LET n == Len(M.heap)
        w == SweepLoop([heap |-> M.heap, i |-> 0, relocation |-> <<>>], visited, 0, n - 1)
    IN  [heap |-> SubSeq(w.heap, 1, w.i), removed |-> n - w.i, relocation |-> w.relocation]

sweepAndCompact(M, visited) ==
    LET n == Len(M.heap)
        w == SweepLoop([heap |-> M.heap, i |-> M.numLiterals, relocation |-> <<>>],
                       visited, M.numLiterals, n - 1)
    IN  [heap |-> SubSeq(w.heap, 1, w.i), removed |-> n - w.i, relocation |-> w.relocation]

\* a variant of reloc: the old-to-new map never applied
RelocNone(relocation, loc) == loc

reloc(relocation, loc) == IF loc \in DOMAIN relocation THEN relocation[loc] ELSE loc
RelocEnv(relocation, env) ==
    [i \in 1..Len(env) |-> <<env[i][1], reloc(relocation, env[i][2])>>]
RelocLocal(relocation, local) == [i \in 1..Len(local) |-> reloc(relocation, local[i])]

\* a variant of RelocateStack: the env of every layer relocated, frame or not
RECURSIVE RelocateStackAllLayers(_, _, _, _)
RelocateStackAllLayers(relocation, stack, E, k) ==
    IF k > Len(stack) THEN [stack |-> stack, store |-> E]
    ELSE RelocateStackAllLayers(relocation,
            [stack EXCEPT ![k].local = RelocLocal(relocation, @)],
            [E EXCEPT ![stack[k].env] = RelocEnv(relocation, @)],
            k + 1)

\* _relocate's loop over the stack, layer by layer from the bottom (k = 1)
RECURSIVE RelocateStack(_, _, _, _)
RelocateStack(relocation, stack, E, k) ==
    IF k > Len(stack) THEN [stack |-> stack, store |-> E]
    ELSE RelocateStack(relocation,
            [stack EXCEPT ![k].local = RelocLocal(relocation, @)],
            IF stack[k].frame
            THEN [E EXCEPT ![stack[k].env] = RelocEnv(relocation, @)] ELSE E,
            k + 1)

\* a variant of RelocateHeap: the Closures' captured envs left as they were
RelocateHeapNone(relocation, heap) == heap

\* _relocate's loop over the heap: every Closure's captured env
RelocateHeap(relocation, heap) ==
    [i \in 1..Len(heap) |->
        IF heap[i].tag = "Closure"
        THEN [heap[i] EXCEPT !.env = RelocEnv(relocation, @)] ELSE heap[i]]

relocate(M, E, relocation) ==
    LET s == RelocateStack(relocation, M.stack, E, 1)
    IN  Res([M EXCEPT !.stack = s.stack,
                      !.resultLoc = IF @ = Uninit THEN @ ELSE reloc(relocation, @),
                      !.heap = RelocateHeap(relocation, @)],
            s.store)

\* _gc: mark, sweep and compact, relocate; yields the State, the store and removed
gc(M, E, g) ==
    LET sw == sweepAndCompact(M, mark(M, E, g))
        r == relocate([M EXCEPT !.heap = sw.heap], E, sw.relocation)
    IN  [m |-> r.m, store |-> r.store, removed |-> sw.removed, relocation |-> sw.relocation]

----------------------------------------------------------------------------
(* execute() *)

\* the threshold execute() starts with
InitialThreshold(M) == M.numLiterals + GcInitialSlack

\* a variant of Collects: a heap that has just reached the threshold collected
CollectsAtThreshold(M, threshold) == M.ret = "true" /\ Len(M.heap) >= threshold

\* whether the loop body collects after a step that left State M
Collects(M, threshold) == M.ret = "true" /\ Len(M.heap) > threshold

\* what reading an indeterminate resultLoc in _mark can do: the process dies on
\* the wild heap access, or the read yields some int g and the collection goes on
GarbageReads(M) ==
    {[crash |-> TRUE, g |-> Uninit]} \cup {[crash |-> FALSE, g |-> x] : x \in -1..(Len(M.heap) - 1)}

\* the outcomes of the collection execute() runs on State M
GcOutcomes(M) ==
    IF M.resultLoc = Uninit THEN GarbageReads(M) ELSE {[crash |-> FALSE, g |-> Uninit]}

\* one iteration of execute()'s loop: step(), then the threshold test and _gc()
ExecuteIter(M, E, threshold, o) ==
    LET r == step(M, E)
        total == Len(r.m.heap)
        c == gc(r.m, r.store, o.g)
    IN  IF ~Collects(r.m, threshold)
        THEN [m |-> r.m, store |-> r.store, threshold |-> threshold, gc |-> FALSE,
              relocation |-> <<>>]
        ELSE IF o.crash
        THEN [m |-> [r.m EXCEPT !.phase = "crashed"], store |-> r.store,
              threshold |-> threshold, gc |-> FALSE, relocation |-> <<>>]
        ELSE [m |-> c.m, store |-> c.store, threshold |-> (total - c.removed) * 2,
              gc |-> TRUE, relocation |-> c.relocation]

----------------------------------------------------------------------------
(* Programs, as the parser delivers them *)

RECURSIVE NatText(_)
NatText(k) == IF k < 10 THEN <<Digits[k + 1]>> ELSE Append(NatText(k \div 10), Digits[(k % 10) + 1])
IntLit(k) == IntegerNode(NatText(k))
SignedLit(k) == IF k < 0 THEN IntegerNode(<<"-">> \o NatText(-k)) ELSE IntLit(k)
Var(x) == VariableNode(x)

\* letrec (loop lambda (n) (if (.= n 0) 0 (loop (.- n 1)))) (loop N)
LoopProgram(N) ==
    LetrecNode(
        << <<Var("loop"),
             LambdaNode(<<Var("n")>>,
                IfNode(IntrinsicCallNode(".=", <<Var("n"), IntLit(0)>>),
                       IntLit(0),
                       ExprCallNode(Var("loop"),
                            <<IntrinsicCallNode(".-", <<Var("n"), IntLit(1)>>)>>)))>> >>,
        ExprCallNode(Var("loop"), <<IntLit(N)>>))

\* letrec (f lambda (x) (if (.= x 0) 1 (.* x (f (.- x 1))))) (f N)
FactProgram(N) ==
    LetrecNode(
        << <<Var("f"),
             LambdaNode(<<Var("x")>>,
                IfNode(IntrinsicCallNode(".=", <<Var("x"), IntLit(0)>>),
                       IntLit(1),
                       IntrinsicCallNode(".*",
                            <<Var("x"),
                              ExprCallNode(Var("f"),
                                <<IntrinsicCallNode(".-", <<Var("x"), IntLit(1)>>)>>)>>)))>> >>,
        ExprCallNode(Var("f"), <<IntLit(N)>>))

\* letrec (x 1 f lambda () x) letrec (x 2) (f)
ScopeProgram ==
    LetrecNode(<< <<Var("x"), IntLit(1)>>, <<Var("f"), LambdaNode(<<>>, Var("x"))>> >>,
        LetrecNode(<< <<Var("x"), IntLit(2)>> >>, ExprCallNode(Var("f"), <<>>)))

\* letrec (f lambda () y) letrec (y 5) (f)
UnboundProgram ==
    LetrecNode(<< <<Var("f"), LambdaNode(<<>>, Var("y"))>> >>,
        LetrecNode(<< <<Var("y"), IntLit(5)>> >>, ExprCallNode(Var("f"), <<>>)))

\* letrec (make lambda (x) lambda () x) (@ x (make 7))
MakeProgram ==
    LetrecNode(<< <<Var("make"), LambdaNode(<<Var("x")>>, LambdaNode(<<>>, Var("x")))>> >>,
        AtNode(Var("x"), ExprCallNode(Var("make"), <<IntLit(7)>>)))

\* ((lambda (x y) (.s+ x y)) "hi" "\t")
StringProgram ==
    ExprCallNode(
        LambdaNode(<<Var("x"), Var("y")>>, IntrinsicCallNode(".s+", <<Var("x"), Var("y")>>)),
        <<StringNode(<<"\"", "h", "i", "\"">>), StringNode(<<"\"", "\\", "t", "\"">>)>>)

\* letrec (even lambda (n) if (.= n 0) 1 (odd (.- n 1))
\*         odd lambda (n) if (.= n 0) 0 (even (.- n 1))) (even 2)
EvenOddProgram ==
    LET fn(other, base) ==
            LambdaNode(<<Var("n")>>,
                IfNode(IntrinsicCallNode(".=", <<Var("n"), IntLit(0)>>),
                       IntLit(base),
                       ExprCallNode(Var(other),
                            <<IntrinsicCallNode(".-", <<Var("n"), IntLit(1)>>)>>)))
    IN  LetrecNode(<< <<Var("even"), fn("odd", 1)>>, <<Var("odd"), fn("even", 0)>> >>,
            ExprCallNode(Var("even"), <<IntLit(2)>>))

\* (1 2)
NonCallableProgram == ExprCallNode(IntLit(1), <<IntLit(2)>>)

\* (1 (./ 1 0))
NonCallableArgProgram ==
    ExprCallNode(IntLit(1), <<IntrinsicCallNode("./", <<IntLit(1), IntLit(0)>>)>>)

\* ((lambda (x) x))
ArityProgram == ExprCallNode(LambdaNode(<<Var("x")>>, Var("x")), <<>>)

\* if -3 10 20;  if 0 10 20;  if (if 2 0 5) 10 20;  if "" 10 20
BranchPrograms ==
    {IfNode(c, IntLit(10), IntLit(20)) :
        c \in {SignedLit(-3), IntLit(0), IfNode(IntLit(2), IntLit(0), IntLit(5)),
               StringNode(<<"\"", "\"">>)}}

\* letrec (x 1 a letrec (a 7 g lambda () a) (g))
\*   letrec (x 2 y x) (@ x lambda () { a x z })
CaptureProgram ==
    LetrecNode(<< <<Var("x"), IntLit(1)>>,
                  <<Var("a"),
                    LetrecNode(<< <<Var("a"), IntLit(7)>>,
                                  <<Var("g"), LambdaNode(<<>>, Var("a"))>> >>,
                               ExprCallNode(Var("g"), <<>>))>> >>,
        LetrecNode(<< <<Var("x"), IntLit(2)>>, <<Var("y"), Var("x")>> >>,
            AtNode(Var("x"),
                   LambdaNode(<<>>, SequenceNode(<<Var("a"), Var("x"), Var("z")>>)))))

\* if (.void) 1 2
CondTypeProgram == IfNode(IntrinsicCallNode(".void", <<>>), IntLit(1), IntLit(2))

\* (./ 1 0)
DivZeroProgram == IntrinsicCallNode("./", <<IntLit(1), IntLit(0)>>)

\* ((lambda (x) (.% x 0)) 1)
ModZeroProgram ==
    ExprCallNode(LambdaNode(<<Var("x")>>, IntrinsicCallNode(".%", <<Var("x"), IntLit(0)>>)),
                 <<IntLit(1)>>)

\* (.and (.and 0 1) (.or 1 0))
LogicProgram ==
    IntrinsicCallNode(".and",
        <<IntrinsicCallNode(".and", <<IntLit(0), IntLit(1)>>),
          IntrinsicCallNode(".or", <<IntLit(1), IntLit(0)>>)>>)

\* letrec (y 5 z y id lambda (a b) b) (id y z)
AliasProgram ==
    LetrecNode(<< <<Var("y"), IntLit(5)>>, <<Var("z"), Var("y")>>,
                  <<Var("id"), LambdaNode(<<Var("a"), Var("b")>>, Var("b"))>> >>,
        ExprCallNode(Var("id"), <<Var("y"), Var("z")>>))

\* (.s[] "hi" l r)
SubstrProgram(l, r) ==
    IntrinsicCallNode(".s[]", <<StringNode(<<"\"", "h", "i", "\"">>), IntLit(l), IntLit(r)>>)

\* ((lambda (x) (.not x)) (.void))
TypeErrorProgram ==
    ExprCallNode(LambdaNode(<<Var("x")>>, IntrinsicCallNode(".not", <<Var("x")>>)),
                 <<IntrinsicCallNode(".void", <<>>)>>)

\* ((lambda () (.foo)))
UnknownIntrinsicProgram ==
    ExprCallNode(LambdaNode(<<>>, IntrinsicCallNode(".foo", <<>>)), <<>>)

\* (@ x 1)
AtNonClosureProgram == AtNode(Var("x"), IntLit(1))

\* letrec (make lambda (x) lambda () x) (@ y (make 7))
AtUnboundProgram ==
    LetrecNode(<< <<Var("make"), LambdaNode(<<Var("x")>>, LambdaNode(<<>>, Var("x")))>> >>,
        AtNode(Var("y"), ExprCallNode(Var("make"), <<IntLit(7)>>)))

\* programs checkDuplicate rejects:
\*   lambda (x y x) 1
\*   letrec (f lambda (a) letrec (y 1 y 2) y) (f 0)
\*   { 1 (lambda (a a) a) letrec (b 1 b 2) b }
DuplicatePrograms ==
    LET params == LambdaNode(<<Var("x"), Var("y"), Var("x")>>, IntLit(1))
        bindings == LetrecNode(<< <<Var("y"), IntLit(1)>>, <<Var("y"), IntLit(2)>> >>, Var("y"))
    IN  {params,
         LetrecNode(<< <<Var("f"), LambdaNode(<<Var("a")>>, bindings)>> >>,
                    ExprCallNode(Var("f"), <<IntLit(0)>>)),
         SequenceNode(<<IntLit(1),
                        ExprCallNode(LambdaNode(<<Var("a"), Var("a")>>, Var("a")), <<>>),
                        LetrecNode(<< <<Var("b"), IntLit(1)>>, <<Var("b"), IntLit(2)>> >>,
                                   Var("b"))>>)}

\* a Lambda and an argument list each:
\*   lambda (x) (.+ x 1)          on 2
\*   lambda (x y) y               on 1
\*   lambda () (.not (.void))     on nothing
\*   lambda (x) lambda () x       on 7
\*   lambda (g) (g 4)             on lambda (y) (.* y 2)
\*   lambda (x) y                 on 1
CallCases ==
    <<[fun |-> LambdaNode(<<Var("x")>>, IntrinsicCallNode(".+", <<Var("x"), IntLit(1)>>)),
       args |-> <<IntLit(2)>>],
      [fun |-> LambdaNode(<<Var("x"), Var("y")>>, Var("y")), args |-> <<IntLit(1)>>],
      [fun |-> LambdaNode(<<>>, IntrinsicCallNode(".not", <<IntrinsicCallNode(".void", <<>>)>>)),
       args |-> <<>>],
      [fun |-> LambdaNode(<<Var("x")>>, LambdaNode(<<>>, Var("x"))), args |-> <<IntLit(7)>>],
      [fun |-> LambdaNode(<<Var("g")>>, ExprCallNode(Var("g"), <<IntLit(4)>>)),
       args |-> <<LambdaNode(<<Var("y")>>, IntrinsicCallNode(".*", <<Var("y"), IntLit(2)>>))>>],
      [fun |-> LambdaNode(<<Var("x")>>, Var("y")), args |-> <<IntLit(1)>>]>>

\* letrec (f L) (f a1 ... an) when named, (L a1 ... an) otherwise
CallForm(c, named) ==
    IF named
    THEN LetrecNode(<< <<Var("f"), c.fun>> >>, ExprCallNode(Var("f"), c.args))
    ELSE ExprCallNode(c.fun, c.args)

\* { (.void) ... (.void) P }: allocates enough garbage for execute() to collect
\* while P runs
Burn(P) ==
    SequenceNode([i \in 1..(GcInitialSlack + 2) |->
        IF i <= GcInitialSlack + 1 THEN IntrinsicCallNode(".void", <<>>) ELSE P])

BindingNames ==
    <<"v1", "v2", "v3", "v4", "v5", "v6", "v7", "v8", "v9", "v10", "v11", "v12",
       "v13", "v14", "v15", "v16", "v17", "v18", "v19", "v20", "v21", "v22", "v23",
       "v24", "v25", "v26", "v27", "v28", "v29", "v30", "v31", "v32", "v33", "v34",
       "v35", "v36", "v37", "v38", "v39", "v40", "v41", "v42", "v43", "v44", "v45",
       "v46", "v47", "v48", "v49", "v50", "v51", "v52", "v53", "v54", "v55", "v56",
       "v57", "v58", "v59", "v60", "v61", "v62", "v63", "v64", "v65", "v66">>

\* letrec (v1 0 v2 0 ... vK 0) 0 with K = 65: its first step allocates more than
\* execute()'s initial slack
ManyBindingsProgram ==
    LetrecNode([i \in 1..(GcInitialSlack + 1) |-> <<Var(BindingNames[i]), IntLit(0)>>],
               IntLit(0))

Programs ==
    {LoopProgram(N) : N \in 0..MaxLoopN} \cup {FactProgram(N) : N \in 0..MaxFactN}
    \cup {ScopeProgram, UnboundProgram, MakeProgram, StringProgram, EvenOddProgram,
          NonCallableProgram, ArityProgram, CondTypeProgram, DivZeroProgram}
    \cup {Burn(LoopProgram(MaxLoopN)), Burn(FactProgram(MaxFactN)), Burn(ScopeProgram),
          Burn(MakeProgram), Burn(EvenOddProgram), Burn(StringProgram)}
    \cup {ManyBindingsProgram}
    \cup {ModZeroProgram, LogicProgram, AliasProgram, SubstrProgram(0, 1), SubstrProgram(1, 0),
          SubstrProgram(1, 2), TypeErrorProgram, UnknownIntrinsicProgram,
          AtNonClosureProgram, AtUnboundProgram, Burn(AliasProgram), Burn(LogicProgram)}
    \cup DuplicatePrograms
    \cup {CallForm(CallCases[k], named) : k \in 1..Len(CallCases), named \in BOOLEAN}
    \cup {FactProgram(5), NonCallableArgProgram}
    \cup BranchPrograms
    \cup {CaptureProgram, Burn(CaptureProgram)}
    \* letrec (c ((lambda (x) lambda () x) (.+ 3 4))) { (.void) ... (.void) (@ x c) }
    \cup {LetrecNode(<< <<Var("c"),
                          ExprCallNode(LambdaNode(<<Var("x")>>, LambdaNode(<<>>, Var("x"))),
                                       <<IntrinsicCallNode(".+", <<IntLit(3), IntLit(4)>>)>>)>> >>,
                      Burn(AtNode(Var("x"), Var("c"))))}
    \* ((lambda (f) letrec (g lambda () f h (@ f g)) { (.void) if (h 0) (g) (h 5) })
    \*  lambda (n) n)
    \cup {ExprCallNode(
            LambdaNode(<<Var("f")>>,
                LetrecNode(<< <<Var("g"), LambdaNode(<<>>, Var("f"))>>,
                              <<Var("h"), AtNode(Var("f"), Var("g"))>> >>,
                    SequenceNode(<<IntrinsicCallNode(".void", <<>>),
                                   IfNode(ExprCallNode(Var("h"), <<IntLit(0)>>),
                                          ExprCallNode(Var("g"), <<>>),
                                          ExprCallNode(Var("h"), <<IntLit(5)>>))>>))),
            <<LambdaNode(<<Var("n")>>, Var("n"))>>)}
    \* ((.eval "lambda () 1"))
    \* (@ x (.eval "((lambda (x) lambda () x) 5)"))
    \* (.eval "(.+ 1 2)")
    \cup {ExprCallNode(IntrinsicCallNode(".eval",
              <<StringNode(<<"\"", "l", "a", "m", "b", "d", "a", " ", "(", ")", " ", "1",
                             "\"">>)>>), <<>>),
          AtNode(Var("x"), IntrinsicCallNode(".eval",
              <<StringNode(<<"\"", "(", "(", "l", "a", "m", "b", "d", "a", " ", "(", "x", ")",
                             " ", "l", "a", "m", "b", "d", "a", " ", "(", ")", " ", "x", ")",
                             " ", "5", ")", "\"">>)>>)),
          IntrinsicCallNode(".eval",
              <<StringNode(<<"\"", "(", ".", "+", " ", "1", " ", "2", ")", "\"">>)>>)}

----------------------------------------------------------------------------
(* The checked system: State 1 runs the program by execute(), State 2 runs *)
(* the same program by step() calls alone (no collection), in lockstep.    *)

\* the ASTs the .eval call of program p builds, one for each of the two States
\* that run p: the State .eval constructs is a local of _callIntrinsic, so its
\* AST is alive during that step() alone (~State deletes it on return)
EvalAsts(p) ==
    LET lits == LiteralPaths(p, <<>>)
        parent(q) == NodeAt(p, SubSeq(q, 1, Len(q) - 1))
        srcs == {k \in 1..Len(lits) :
                    /\ lits[k] # <<>>
                    /\ parent(lits[k]).kind = "IntrinsicCall"
                    /\ parent(lits[k]).intrinsic = ".eval"}
        source == unquote(NodeAt(p, lits[CHOOSE k \in srcs : TRUE]).val).val
        ast == [AstOf(parse[source]) EXCEPT !.alive = FALSE]
    IN  IF srcs = {} THEN <<>> ELSE <<ast, ast>>

Init ==
    /\ prog \in Programs
    /\ asts = <<AstOf(prog), AstOf(prog)>> \o EvalAsts(prog)
    /\ envStore = << <<>>, <<>> >>
    /\ m = [i \in {1, 2} |-> Construct(prog, i, i)]
    /\ gc_threshold = InitialThreshold(Construct(prog, 1, 1))
    /\ lastRelocation = <<>>
    /\ gcs = 0
    /\ steps = 0
    /\ calls = 0

Running(M) == M.phase = "live" /\ M.ret \in {"none", "true"}
AtSentinel(M) == M.phase = "live" /\ Top(M).expr = NullExpr
NoGarbage == [crash |-> FALSE, g |-> Uninit]

\* execute() on State 1 performs one loop iteration while the host calls step()
\* once on State 2
LockStep ==
    /\ Running(m[1]) /\ Running(m[2])
    /\ Defined(m[1], envStore) /\ Defined(m[2], envStore)
    /\ LET r2 == step(m[2], envStore)
           s1 == step(m[1], r2.store).m
       IN  \E o \in (IF Collects(s1, gc_threshold) THEN GcOutcomes(s1) ELSE {NoGarbage}) :
              LET x == ExecuteIter(m[1], r2.store, gc_threshold, o)
              IN  /\ m' = [m EXCEPT ![1] = x.m, ![2] = r2.m]
                  /\ envStore' = x.store
                  /\ gc_threshold' = x.threshold
                  /\ lastRelocation' = x.relocation
                  /\ gcs' = IF x.gc THEN gcs + 1 ELSE gcs
    /\ steps' = IF AtSentinel(m[2]) THEN steps ELSE steps + 1
    /\ UNCHANGED <<prog, asts, calls>>

\* the host calls step() on State 2 after execute() has ended on State 1
StepOnly ==
    /\ ~Running(m[1])
    /\ m[2].phase = "live" /\ m[2].ret # "error"
    /\ Defined(m[2], envStore)
    /\ AtSentinel(m[2]) => calls < MaxIdleCalls
    /\ LET r2 == step(m[2], envStore)
       IN  /\ m' = [m EXCEPT ![2] = r2.m]
           /\ envStore' = r2.store
    /\ calls' = IF AtSentinel(m[2]) THEN calls + 1 ELSE calls
    /\ steps' = IF AtSentinel(m[2]) THEN steps ELSE steps + 1
    /\ lastRelocation' = <<>>
    /\ UNCHANGED <<prog, asts, gc_threshold, gcs>>

Next == LockStep \/ StepOnly

Spec == Init /\ [][Next]_vars

----------------------------------------------------------------------------
(* Copying a State: State 1 is constructed, the host copies it into State 2 *)
(* at some step boundary and goes on calling step() on either State.       *)

ClonePrograms == {ScopeProgram, MakeProgram, LoopProgram(1)}

InitClone ==
    /\ prog \in ClonePrograms
    /\ asts = <<AstOf(prog)>>
    /\ envStore = << <<>> >>
    /\ m = [i \in {1, 2} |-> IF i = 1 THEN Construct(prog, 1, 1) ELSE NoState]
    /\ gc_threshold = InitialThreshold(Construct(prog, 1, 1))
    /\ lastRelocation = <<>>
    /\ gcs = 0
    /\ steps = 0
    /\ calls = 0

\* ExprNode::clone() of the whole AST: the new nodes' loc keep the default -1
CloneAst(p) ==
    [alive |-> TRUE, root |-> p,
     loc |-> [q \in SeqRange(LiteralPaths(p, <<>>)) |-> -1]]

\* State(const State &state): expr is cloned; stack (with each Layer's
\* shared_ptr<Env> and expr pointer), heap, numLiterals and resultLoc are copied
CopyConstruct(M, a) == [M EXCEPT !.expr = a]

CopyState ==
    /\ m[1].phase = "live" /\ m[2].phase = "none"
    /\ m' = [m EXCEPT ![2] = CopyConstruct(m[1], Len(asts) + 1)]
    /\ asts' = Append(asts, CloneAst(prog))
    /\ UNCHANGED <<prog, envStore, gc_threshold, lastRelocation, gcs, steps, calls>>

\* the host calls step() on State i
StepState(i) ==
    /\ m[i].phase = "live" /\ m[i].ret # "error"
    /\ AtSentinel(m[i]) => calls < MaxIdleCalls
    /\ IF Defined(m[i], envStore)
       THEN LET r == step(m[i], envStore)
            IN  m' = [m EXCEPT ![i] = r.m] /\ envStore' = r.store
       ELSE m' = [m EXCEPT ![i] = Undefined(m[i])] /\ UNCHANGED envStore
    /\ calls' = IF AtSentinel(m[i]) THEN calls + 1 ELSE calls
    /\ UNCHANGED <<prog, asts, gc_threshold, lastRelocation, gcs, steps>>

\* ~State(): delete expr; the State's AST is freed with all its nodes, while
\* an Env lives on as long as a Layer of another State holds its shared_ptr
DestroyState(i) ==
    /\ m[1].phase = "live" /\ m[2].phase = "live"
    /\ m' = [m EXCEPT ![i].phase = "destroyed"]
    /\ asts' = [asts EXCEPT ![m[i].expr].alive = FALSE]
    /\ UNCHANGED <<prog, envStore, gc_threshold, lastRelocation, gcs, steps, calls>>

NextClone ==
    \/ CopyState
    \/ \E i \in {1, 2} : StepState(i)
    \/ \E i \in {1, 2} : DestroyState(i)

SpecClone == InitClone /\ [][NextClone]_vars

----------------------------------------------------------------------------
(* Evaluating one intrinsic call: a State is constructed for (op a b) or for *)
(* (.unquote (.quote s)) and stepped to the end.                             *)

\* (op a b)
ArithProgram(op, a, b) == IntrinsicCallNode(op, <<SignedLit(a), SignedLit(b)>>)

ArithPrograms ==
    LET operands == {IntMin, IntMin + 1, -7, -1, 0, 1, 2, 7, IntMax}
    IN  {ArithProgram(op, a, b) : op \in {".+", ".-", ".*", "./", ".%"},
                                  a \in operands, b \in operands}

\* the strings of up to MaxStrLen characters over backslash, double quote,
\* tab, newline and three letters
Strings ==
    UNION {[1..n -> {"\\", "\"", "\t", "\n", "a", "t", "n"}] : n \in 0..MaxStrLen}

\* an expression whose value is the string s: the concatenation of one
\* expression per character, a literal except for the backslash, which no
\* literal can end with: (.s[] "\\a" 0 1)
RECURSIVE StrExpr(_)
StrExpr(s) ==
    LET lit(t) == StringNode(<<"\"">> \o t \o <<"\"">>)
        char(c) ==
            CASE c = "\\" -> IntrinsicCallNode(".s[]", <<lit(<<"\\", "\\", "a">>), IntLit(0), IntLit(1)>>)
              [] c = "\"" -> lit(<<"\\", "\"">>)
              [] c = "\t" -> lit(<<"\\", "t">>)
              [] c = "\n" -> lit(<<"\\", "n">>)
              [] OTHER -> lit(<<c>>)
    IN  IF s = <<>> THEN lit(<<>>)
        ELSE IF Len(s) = 1 THEN char(s[1])
        ELSE IntrinsicCallNode(".s+", <<StrExpr(SubSeq(s, 1, Len(s) - 1)), char(s[Len(s)])>>)

\* (.unquote (.quote s))
RoundTripProgram(s) ==
    IntrinsicCallNode(".unquote", <<IntrinsicCallNode(".quote", <<StrExpr(s)>>)>>)

EvalPrograms == ArithPrograms \cup {RoundTripProgram(s) : s \in Strings}

InitEval ==
    /\ prog \in EvalPrograms
    /\ asts = <<AstOf(prog)>>
    /\ envStore = << <<>> >>
    /\ m = [i \in {1, 2} |-> IF i = 1 THEN Construct(prog, 1, 1) ELSE NoState]
    /\ gc_threshold = InitialThreshold(Construct(prog, 1, 1))
    /\ lastRelocation = <<>>
    /\ gcs = 0
    /\ steps = 0
    /\ calls = 0

NextEval == StepState(1)

SpecEval == InitEval /\ [][NextEval]_vars

----------------------------------------------------------------------------
(* Properties *)

Live == {i \in {1, 2} : m[i].phase = "live"}
Env(M, k) == envStore[M.stack[k].env]
IsKind(M, k, kind) == M.stack[k].expr # NullExpr /\ Node(M.stack[k].expr).kind = kind

\* every Location a State stores, resultLoc apart
StoredLocs(M) ==
    UNION {SeqRange(M.stack[k].local) \cup EnvLocs(Env(M, k)) : k \in 1..Len(M.stack)}
    \cup UNION {IF M.heap[j].tag = "Closure" THEN EnvLocs(M.heap[j].env) ELSE {}
                : j \in 1..Len(M.heap)}

\* the Locations reachable in a State: the literals' and what _mark would visit
Reachable(M) == 0..(M.numLiterals - 1) \cup mark(M, envStore, Uninit)

ResultValue(M) == HeapAt(M, M.resultLoc)

(* ---- C1 ---- *)

SameShape(A, B) ==
    /\ Len(A.stack) = Len(B.stack)
    /\ (A.resultLoc = Uninit) = (B.resultLoc = Uninit)
    /\ \A k \in 1..Len(A.stack) :
        LET a == A.stack[k]
            b == B.stack[k]
        IN  /\ (a.expr = NullExpr) = (b.expr = NullExpr)
            /\ a.expr.path = b.expr.path
            /\ a.pc = b.pc
            /\ a.frame = b.frame
            /\ Len(a.local) = Len(b.local)
            /\ Len(Env(A, k)) = Len(Env(B, k))
            /\ \A j \in 1..Len(Env(A, k)) : Env(A, k)[j][1] = Env(B, k)[j][1]

\* the pairs of Locations the two States hold in the same place
RootPairs(A, B) ==
    UNION {{<<A.stack[k].local[j], B.stack[k].local[j]>> : j \in 1..Len(A.stack[k].local)}
           \cup {<<Env(A, k)[j][2], Env(B, k)[j][2]>> : j \in 1..Len(Env(A, k))}
           : k \in 1..Len(A.stack)}
    \cup (IF A.resultLoc = Uninit THEN {} ELSE {<<A.resultLoc, B.resultLoc>>})

\* whether the Values at a pair of Locations agree on everything but the
\* Locations inside them
ValuesAgree(A, B, p) ==
    LET a == HeapAt(A, p[1])
        b == HeapAt(B, p[2])
    IN  /\ a.tag = b.tag
        /\ a.tag \in {"Integer", "String"} => a.value = b.value
        /\ a.tag = "Closure" =>
            /\ a.fun.path = b.fun.path
            /\ Len(a.env) = Len(b.env)
            /\ \A j \in 1..Len(a.env) : a.env[j][1] = b.env[j][1]

\* the pairs reached from todo through the captured envs of agreeing Closures
RECURSIVE RelatedPairs(_, _, _, _)
RelatedPairs(A, B, seen, todo) ==
    IF todo \subseteq seen THEN seen
    ELSE LET new == todo \ seen
         IN  RelatedPairs(A, B, seen \cup new,
                UNION {IF /\ InHeap(A, p[1]) /\ InHeap(B, p[2])
                          /\ HeapAt(A, p[1]).tag = "Closure"
                          /\ ValuesAgree(A, B, p)
                       THEN {<<HeapAt(A, p[1]).env[j][2], HeapAt(B, p[2]).env[j][2]>>
                             : j \in 1..Len(HeapAt(A, p[1]).env)}
                       ELSE {} : p \in new})

\* corresponding Locations of the two States denote equal values
DenoteEqual(A, B) ==
    \A p \in RelatedPairs(A, B, {}, RootPairs(A, B)) :
        InHeap(A, p[1]) /\ InHeap(B, p[2]) /\ ValuesAgree(A, B, p)

\* C1: GC transparency. State 1, run by execute() with its threshold collections,
\* and State 2, run by step() alone, stay in step: execute() never dies, both
\* step() calls return the same, the stacks have the same shape (depth, expr, pc,
\* frame bits), corresponding Locations denote equal values, and at the terminal
\* state the final values are the same.
C1_GcTransparency ==
    /\ m[1].phase = "live"
    /\ m[1].ret = m[2].ret
    /\ m[1].err = m[2].err
    /\ SameShape(m[1], m[2])
    /\ DenoteEqual(m[1], m[2])

(* ---- C2 ---- *)

EnvsOf(i) == [k \in 1..Len(m[i].stack) |-> Env(m[i], k)]

\* C3: clone produces disjoint storage. Once State 2 is a copy of State 1, an
\* operation on one State leaves the other State's stack, heap and resultLoc and
\* every environment its layers reference unchanged.
C3_CloneDisjoint ==
    [][\A i \in {1, 2} :
        (m[1].phase = "live" /\ m[2].phase = "live" /\ m'[i] = m[i])
            => EnvsOf(i)' = EnvsOf(i)]_vars

(* ---- C4 ---- *)

IsLoop == \E N \in 0..MaxLoopN : prog = LoopProgram(N)
LoopN == CHOOSE N \in 0..MaxLoopN : prog = LoopProgram(N)

Terminal(M) == M.phase = "live" /\ M.ret = "false"

Max(S) == CHOOSE x \in S : \A y \in S : y <= x

\* the number of nodes on the longest path from n down to a leaf
RECURSIVE Height(_)
Height(n) ==
    1 + Max({0} \cup {Height(Children(n)[c]) : c \in 1..Len(Children(n))})

\* a bound on the step() calls one layer of each node of n can take: a layer
\* is stepped at most three times more than its node has children
RECURSIVE Weight(_)
Weight(n) ==
    IF Children(n) = <<>> THEN 3
    ELSE LET w[c \in 0..Len(Children(n))] ==
                IF c = 0 THEN Len(Children(n)) + 3 ELSE w[c - 1] + Weight(Children(n)[c])
         IN  w[Len(Children(n))]

\* the depth the loop program is held to: the sentinel and one layer per level
\* of the program text, whose height does not depend on the literal N
LoopDepthBound == 1 + Height(LoopProgram(0))

\* C4: tail-call boundedness. For every N the loop program runs without error
\* and without stopping short of the terminal state, takes no more step() calls
\* than the layers of its top level and of N + 1 calls of loop can take, ends
\* with final value 0, and never has more than LoopDepthBound layers on the
\* control stack, whatever N is.
C4_TailCallBounded ==
    IsLoop =>
        /\ \A i \in {1, 2} :
            /\ m[i].phase = "live" /\ m[i].ret # "error"
            /\ Running(m[i]) => Defined(m[i], envStore)
            /\ Len(m[i].stack) <= LoopDepthBound
            /\ Terminal(m[i]) => ResultValue(m[i]) = Integer(0)
        /\ steps <= (LoopN + 2) * Weight(prog)
        /\ Height(prog) = Height(LoopProgram(0))

\* the loop program with the largest N has ended with 0 on both States
C4_Witness ==
    /\ prog = LoopProgram(MaxLoopN)
    /\ \A i \in {1, 2} : Terminal(m[i]) /\ ResultValue(m[i]) = Integer(0)

(* ---- C5 ---- *)

\* State i is about to run the call step of an ExprCall
AtCallStep(M) ==
    /\ Running(M) /\ IsKind(M, Len(M.stack), "ExprCall")
    /\ Top(M).pc = Len(Node(Top(M).expr).argList) + 2

\* the Locations the call step finds in local once it has recorded the last one
CallLocal(M) ==
    IF Top(M).pc > 2 THEN Append(Top(M).local, M.resultLoc) ELSE Top(M).local

Names(env) == {env[j][1] : j \in 1..Len(env)}

\* the layers above a frame, up to the next frame, run in the frame's environment
BodyRunsInFrameEnv(M) ==
    \A k \in 2..Len(M.stack) : ~M.stack[k].frame => M.stack[k].env = M.stack[k - 1].env

\* C5: lexical scope. The frame a call step pushes resolves every name as the
\* closure's captured bindings followed by its parameters do, never as the
\* caller's environment does, and the body's layers all run in that frame's
\* environment.
C5_LexicalScope ==
    /\ [](\A i \in Live : BodyRunsInFrameEnv(m[i]))
    /\ [][\A i \in {1, 2} :
            (AtCallStep(m[i]) /\ m'[i].phase = "live" /\ m'[i].ret = "true"
             /\ (i = 1 => gcs' = gcs))
            => LET callee == HeapAt(m[i], Top(m[i]).local[1])
                   params == Node(callee.fun).varList
                   args == Tail(CallLocal(m[i]))
                   new == Top(m'[i])
                   newEnv == envStore'[new.env]
                   callerEnv == Env(m[i], Len(m[i].stack))
               IN  /\ new.frame /\ new.pc = 0
                   /\ new.expr.path = Append(callee.fun.path, Len(params) + 1)
                   /\ \A x \in Names(newEnv) \cup Names(callerEnv) \cup Names(callee.env) :
                        lookup(x, newEnv) =
                            IF \E j \in 1..Len(params) : params[j].name = x
                            THEN <<args[CHOOSE j \in 1..Len(params) : params[j].name = x]>>
                            ELSE lookup(x, callee.env)]_vars

\* a call has just pushed a frame, and some name bound at the call site is
\* bound differently (or not at all) in the frame
C5_Witness ==
    \E i \in Live :
        LET d == Len(m[i].stack)
        IN  /\ d >= 3 /\ m[i].stack[d].frame /\ m[i].stack[d].pc = 0
            /\ IsKind(m[i], d - 1, "ExprCall")
            /\ \E x \in Names(Env(m[i], d - 1)) :
                lookup(x, Env(m[i], d - 1)) # lookup(x, Env(m[i], d))

(* ---- C6 ---- *)

\* State M is about to run the Letrec step that overwrites reserved Location l
LetrecOverwrites(M, l) ==
    /\ Running(M) /\ IsKind(M, Len(M.stack), "Letrec")
    /\ Top(M).pc > 1 /\ Top(M).pc <= Len(Node(Top(M).expr).varExprList) + 1
    /\ lookup(Node(Top(M).expr).varExprList[Top(M).pc - 1][1].name,
              Env(M, Len(M.stack))) = <<l>>
    /\ HeapAt(M, l) = Void

\* a Value with the Locations inside it relocated
RelocValue(relocation, v) ==
    IF v.tag = "Closure" THEN [v EXCEPT !.env = RelocEnv(relocation, @)] ELSE v

\* the slots of the old heap a collection with this map has kept, the new heap
\* having size n
Survivors(relocation, n) ==
    DOMAIN relocation
    \cup {l \in 0..(n - 1) : \A j \in DOMAIN relocation : relocation[j] # l}

\* C6 as stated: the Value at a reachable Location L never changes, but for the
\* single overwrite of a slot a Letrec has reserved.
C6_ValueAtIndexFixed ==
    [][\A i \in {1, 2} :
        (m[i].phase = "live" /\ m'[i].phase = "live")
        => \A l \in Reachable(m[i]) :
            /\ InHeap(m'[i], l)
            /\ \/ HeapAt(m'[i], l) = HeapAt(m[i], l)
               \/ /\ LetrecOverwrites(m[i], l)
                  /\ HeapAt(m'[i], l) = HeapAt(m[i], m[i].resultLoc)]_vars

\* the relocation the action applied to State i
Moved(i) == IF i = 1 THEN lastRelocation' ELSE <<>>

\* C6: value immutability up to relocation. For a reachable Location L that
\* stays in the heap, the Value at the slot L is relocated to is the Value that
\* was at L, its captured Locations relocated likewise, but for the single
\* overwrite of a slot a Letrec has reserved with the result of its
\* right-hand side.
C6_ValueImmutable ==
    [][\A i \in {1, 2} :
        (m[i].phase = "live" /\ m'[i].phase = "live")
        => \A l \in Reachable(m[i]) :
            (i = 1 /\ gcs' # gcs => l \in Survivors(Moved(i), Len(m'[i].heap)))
            => /\ InHeap(m'[i], reloc(Moved(i), l))
               /\ \/ HeapAt(m'[i], reloc(Moved(i), l)) = RelocValue(Moved(i), HeapAt(m[i], l))
                  \/ /\ LetrecOverwrites(m[i], l)
                     /\ HeapAt(m'[i], reloc(Moved(i), l))
                            = RelocValue(Moved(i), HeapAt(m[i], m[i].resultLoc))]_vars

\* a collection has just moved a reachable Closure whose captured bindings
\* were relocated with it
C6_Witness ==
    /\ m[1].phase = "live" /\ gcs >= 1
    /\ \E l \in DOMAIN lastRelocation :
        LET v == HeapAt(m[1], lastRelocation[l])
        IN  /\ lastRelocation[l] \in Reachable(m[1])
            /\ v.tag = "Closure"
            /\ \E j \in 1..Len(v.env) : \E o \in DOMAIN lastRelocation :
                    v.env[j][2] = lastRelocation[o]

(* ---- C7 ---- *)

IsSentinel(L) == L.expr = NullExpr /\ L.frame

\* C7: the control stack is never empty, its bottom layer is the main-frame
\* sentinel, and no other layer is.
C7_SentinelAtBottom ==
    \A i \in Live :
        /\ Len(m[i].stack) >= 1
        /\ IsSentinel(m[i].stack[1])
        /\ \A k \in 2..Len(m[i].stack) : m[i].stack[k].expr # NullExpr

\* a tail call has just replaced a frame: the top frame's environment is not the
\* one the ExprCall layer below it would have built
C7_Witness ==
    \E i \in Live :
        LET d == Len(m[i].stack)
        IN  /\ d >= 3 /\ m[i].stack[d].frame /\ m[i].stack[d].pc = 0
            /\ IsKind(m[i], d - 1, "ExprCall")
            /\ HeapAt(m[i], m[i].stack[d - 1].local[1]).tag = "Closure"
            /\ Env(m[i], d) # CallEnv(HeapAt(m[i], m[i].stack[d - 1].local[1]),
                                      m[i].stack[d - 1])
            /\ IsSentinel(m[i].stack[1])

(* ---- C8 ---- *)

\* what C8 says of one step() call that takes State A to State B
StepReturn(A, B) ==
    /\ (B.ret = "false") = AtSentinel(A)
    /\ ~AtSentinel(A) => B.ret \in {"true", "error"}

\* C8: step() returns false exactly when the top layer is the sentinel, and
\* then changes neither stack nor heap nor resultLoc nor any environment;
\* elsewhere it returns true or raises an error.
C8_FalseIffSentinel ==
    [][/\ (m[2].phase = "live" /\ m'[2].phase = "live") =>
            /\ StepReturn(m[2], m'[2])
            /\ AtSentinel(m[2]) =>
                /\ m'[2].stack = m[2].stack
                /\ m'[2].heap = m[2].heap
                /\ m'[2].resultLoc = m[2].resultLoc
                /\ envStore' = envStore
       /\ (Running(m[1]) /\ m'[1].phase = "live") =>
            /\ StepReturn(m[1], m'[1])
            /\ AtSentinel(m[1]) =>
                /\ m'[1].stack = m[1].stack
                /\ m'[1].heap = m[1].heap
                /\ m'[1].resultLoc = m[1].resultLoc]_vars

\* step() has been called MaxIdleCalls times at the terminal state
C8_Witness == Terminal(m[2]) /\ AtSentinel(m[2]) /\ calls = MaxIdleCalls

(* ---- C9 ---- *)

\* C9: numLiterals stays what the constructor made it, and each slot below
\* it holds the literal pre-allocated there.
C9_LiteralsImmortal ==
    \A i \in Live :
        LET lits == LiteralPaths(prog, <<>>)
        IN  /\ m[i].numLiterals = Len(lits)
            /\ Len(m[i].heap) >= m[i].numLiterals
            /\ \A k \in 1..Len(lits) :
                m[i].heap[k] = LiteralValue(NodeAt(prog, lits[k]))

\* collections have run and left in place a literal that nothing reaches
C9_Witness ==
    /\ m[1].phase = "live" /\ gcs >= 2
    /\ \E l \in 0..(m[1].numLiterals - 1) : l \notin mark(m[1], envStore, Uninit)

(* ---- C10 ---- *)

\* layer k + 1 evaluates child c of layer k's node, in layer k's environment
EvaluatesChild(M, k, c) ==
    /\ M.stack[k + 1].expr = NodeRef(M.stack[k].expr.ast, Append(M.stack[k].expr.path, c))
    /\ ~M.stack[k + 1].frame
    /\ M.stack[k + 1].env = M.stack[k].env

\* where an ExprCall layer can be: the child above it is the callee while local
\* is empty, then argument j while local holds the callee and j - 1 arguments
CallProgress(M, k) ==
    LET L == M.stack[k]
        N == Len(Node(L.expr).argList)
        top == k = Len(M.stack)
    IN  CASE L.pc = 0 -> top /\ L.local = <<>>
          [] L.pc = 1 -> L.local = <<>> /\ (top \/ EvaluatesChild(M, k, 1))
          [] L.pc = 2 -> top /\ Len(L.local) = 1
          [] L.pc > 2 /\ L.pc <= N + 2 ->
                Len(L.local) = L.pc - 2 /\ (top \/ EvaluatesChild(M, k, L.pc - 1))
          [] OTHER -> L.pc = N + 3 /\ Len(L.local) = N + 1 /\ (top \/ M.stack[k + 1].frame)

\* C10: an ExprCall's layers are pushed in the order callee, argument 1, ...,
\* argument N, each once the previous has completed; each completion appends
\* the result's Location to local, and the call step binds the parameters to
\* the arguments' Locations in that order.
C10_CallOrder ==
    /\ [](\A i \in Live : \A k \in 2..Len(m[i].stack) :
            IsKind(m[i], k, "ExprCall") => CallProgress(m[i], k))
    /\ [][\A i \in {1, 2} :
            (/\ Running(m[i]) /\ m'[i].phase = "live" /\ m'[i].ret = "true"
             /\ IsKind(m[i], Len(m[i].stack), "ExprCall")
             /\ (i = 1 => gcs' = gcs))
            => LET d == Len(m[i].stack)
                   L == Top(m[i])
                   N == Len(Node(L.expr).argList)
               IN  /\ (L.pc = 1 \/ (L.pc > 2 /\ L.pc <= N + 1))
                        => m'[i].stack[d].local = Append(L.local, m[i].resultLoc)
                   /\ L.pc = N + 2 =>
                        LET callee == HeapAt(m[i], CallLocal(m[i])[1])
                            newEnv == envStore'[Top(m'[i]).env]
                        IN  /\ Len(newEnv) = Len(callee.env) + N
                            /\ \A j \in 1..N :
                                newEnv[Len(callee.env) + j][2] = CallLocal(m[i])[j + 1]]_vars

\* a call with two or more arguments has recorded them all and entered the body
C10_Witness ==
    \E i \in Live : \E k \in 2..Len(m[i].stack) :
        /\ IsKind(m[i], k, "ExprCall")
        /\ Len(Node(m[i].stack[k].expr).argList) >= 2
        /\ m[i].stack[k].pc = Len(Node(m[i].stack[k].expr).argList) + 3
        /\ k < Len(m[i].stack) /\ m[i].stack[k + 1].frame

(* ---- C11 ---- *)

\* where a Letrec layer can be: alone on top before and after it has reserved
\* its variables, then below right-hand side j while pc = j + 1, then below
\* the body
LetrecProgress(M, k) ==
    LET L == M.stack[k]
        N == Len(Node(L.expr).varExprList)
        top == k = Len(M.stack)
    IN  CASE L.pc \in {0, 1} -> top
          [] L.pc > 1 /\ L.pc <= N + 1 -> top \/ EvaluatesChild(M, k, 2 * (L.pc - 1))
          [] OTHER -> L.pc = N + 2 /\ (top \/ EvaluatesChild(M, k, 2 * N + 1))

\* C11: a Letrec evaluates its right-hand sides in the order 1, ..., N; the
\* step that finds right-hand side j completed stores its result into
\* variable j and only then starts right-hand side j + 1, or the body once
\* j = N.
C11_LetrecOrder ==
    /\ [](\A i \in Live : \A k \in 2..Len(m[i].stack) :
            IsKind(m[i], k, "Letrec") => LetrecProgress(m[i], k))
    /\ [][\A i \in {1, 2} :
            (/\ Running(m[i]) /\ m'[i].phase = "live" /\ m'[i].ret = "true"
             /\ IsKind(m[i], Len(m[i].stack), "Letrec")
             /\ Top(m[i]).pc > 1
             /\ Top(m[i]).pc <= Len(Node(Top(m[i]).expr).varExprList) + 1
             /\ (i = 1 => gcs' = gcs))
            => LET d == Len(m[i].stack)
                   L == Top(m[i])
                   n == Node(L.expr)
                   N == Len(n.varExprList)
                   j == L.pc - 1
                   loc == lookup(n.varExprList[j][1].name, envStore[L.env])
               IN  /\ loc # <<>>
                   /\ m'[i].heap[loc[1] + 1] = HeapAt(m[i], m[i].resultLoc)
                   /\ Len(m'[i].stack) = d + 1
                   /\ m'[i].stack[d].pc = L.pc + 1
                   /\ Top(m'[i]).pc = 0
                   /\ Top(m'[i]).expr =
                        NodeRef(L.expr.ast,
                                Append(L.expr.path, IF j < N THEN 2 * (j + 1) ELSE 2 * N + 1))]_vars

\* the body of a Letrec of three variables runs
C11_Witness ==
    \E k \in 2..(Len(m[2].stack) - 1) :
        /\ m[2].phase = "live" /\ IsKind(m[2], k, "Letrec")
        /\ Len(Node(m[2].stack[k].expr).varExprList) >= 3
        /\ m[2].stack[k].pc = Len(Node(m[2].stack[k].expr).varExprList) + 2
        /\ EvaluatesChild(m[2], k, 2 * Len(Node(m[2].stack[k].expr).varExprList) + 1)

(* ---- C12 ---- *)

\* where an IntrinsicCall layer can be: on top with no argument recorded, or
\* at pc = j below argument j or on top having just got it back, local holding
\* the Locations of the j - 1 arguments before it
IntrinsicProgress(M, k) ==
    LET L == M.stack[k]
        N == Len(Node(L.expr).argList)
        top == k = Len(M.stack)
    IN  IF L.pc = 0 THEN top /\ L.local = <<>>
        ELSE /\ L.pc <= N
             /\ Len(L.local) = L.pc - 1
             /\ (top \/ EvaluatesChild(M, k, L.pc))

\* C12: an IntrinsicCall evaluates all its arguments left to right and only
\* then dispatches on the intrinsic: a step that has fewer than N results
\* starts the next argument whatever the values got so far, and allocates
\* nothing; the dispatching step has the N Locations in order. In particular
\* .and and .or evaluate their second argument also when the first decides.
C12_IntrinsicArgsFirst ==
    /\ [](\A i \in {1, 2} : Running(m[i]) => \A k \in 2..Len(m[i].stack) :
            IsKind(m[i], k, "IntrinsicCall") => IntrinsicProgress(m[i], k))
    /\ [][\A i \in {1, 2} :
            (/\ Running(m[i]) /\ m'[i].phase = "live"
             /\ IsKind(m[i], Len(m[i].stack), "IntrinsicCall")
             /\ (i = 1 => gcs' = gcs))
            => LET d == Len(m[i].stack)
                   L == Top(m[i])
                   n == Node(L.expr)
                   N == Len(n.argList)
               IN  IF L.pc < N
                   THEN /\ m'[i].ret = "true"
                        /\ m'[i].heap = m[i].heap
                        /\ Len(m'[i].stack) = d + 1
                        /\ m'[i].stack[d].pc = L.pc + 1
                        /\ m'[i].stack[d].local = IntrinsicArgs(m[i])
                        /\ Top(m'[i]).pc = 0
                        /\ Top(m'[i]).expr =
                                NodeRef(L.expr.ast, Append(L.expr.path, L.pc + 1))
                   ELSE /\ Len(IntrinsicArgs(m[i])) = N
                        /\ LET r == callIntrinsic(m[i], n.intrinsic, IntrinsicArgs(m[i]))
                           IN  IF r.ok
                               THEN /\ m'[i].ret = "true"
                                    /\ Len(m'[i].stack) = d - 1
                                    /\ m'[i].resultLoc = Len(m[i].heap)
                                    /\ m'[i].heap = Append(m[i].heap, r.value)
                               ELSE m'[i].ret = "error" /\ m'[i].err = r.msg]_vars

\* the second argument of an .or whose first argument is 1 is being evaluated,
\* itself the second argument of an .and whose first argument was 0
C12_Witness ==
    /\ m[2].phase = "live" /\ Len(m[2].stack) = 4
    /\ IsKind(m[2], 2, "IntrinsicCall") /\ Node(m[2].stack[2].expr).intrinsic = ".and"
    /\ m[2].stack[2].pc = 2
    /\ HeapAt(m[2], m[2].stack[2].local[1]) = Integer(0)
    /\ IsKind(m[2], 3, "IntrinsicCall") /\ Node(m[2].stack[3].expr).intrinsic = ".or"
    /\ m[2].stack[3].pc = 2
    /\ HeapAt(m[2], m[2].stack[3].local[1]) = Integer(1)
    /\ EvaluatesChild(m[2], 3, 2)

(* ---- C13 ---- *)

\* the Location argument expression a evaluates to in environment env, for
\* the arguments whose Location can be told from the program text: a bound
\* variable's Location, a literal's pre-allocated slot
ArgLocation(a, env, fallback) ==
    IF Node(a).kind = "Variable" /\ lookup(Node(a).name, env) # <<>>
    THEN lookup(Node(a).name, env)[1]
    ELSE IF Node(a).kind \in {"Integer", "String"} THEN NodeLoc(a)
    ELSE fallback

\* C13: closure calls pass arguments by reference: the call step allocates
\* nothing, and in the Env of the frame it pushes parameter j is bound to the
\* Location argument j evaluated to (for a variable argument the Location the
\* variable denotes in the caller's Env, for a literal its pre-allocated slot).
C13_CallByReference ==
    [][\A i \in {1, 2} :
        (/\ AtCallStep(m[i]) /\ m'[i].phase = "live" /\ m'[i].ret = "true"
         /\ (i = 1 => gcs' = gcs))
        => LET L == Top(m[i])
               n == Node(L.expr)
               N == Len(n.argList)
               callee == HeapAt(m[i], CallLocal(m[i])[1])
               newEnv == envStore'[Top(m'[i]).env]
               arg(j) == NodeRef(L.expr.ast, Append(L.expr.path, j + 1))
           IN  /\ m'[i].heap = m[i].heap
               /\ Top(m'[i]).frame
               /\ Len(newEnv) = Len(callee.env) + N
               /\ \A j \in 1..N :
                    LET b == newEnv[Len(callee.env) + j]
                    IN  /\ b[1] = Node(callee.fun).varList[j].name
                        /\ b[2] = CallLocal(m[i])[j + 1]
                        /\ b[2] = ArgLocation(arg(j), envStore[L.env], b[2])]_vars

\* a called function runs with two parameters bound to the distinct Locations
\* its two variable arguments denote in the caller's Env
C13_Witness ==
    /\ prog = AliasProgram /\ m[2].phase = "live"
    /\ Top(m[2]).frame /\ Top(m[2]).expr # NullExpr
    /\ LET env == envStore[Top(m[2]).env]
           caller == envStore[m[2].stack[1].env]
       IN  /\ lookup("a", env) # <<>> /\ lookup("a", env) = lookup("y", caller)
           /\ lookup("b", env) # <<>> /\ lookup("b", env) = lookup("z", caller)
           /\ lookup("a", env) # lookup("b", env)

(* ---- C14 ---- *)

\* State i is about to record the result of a Letrec's right-hand side, and
\* the step succeeds without a collection
LetrecRecords(i) ==
    /\ Running(m[i]) /\ m'[i].phase = "live" /\ m'[i].ret = "true"
    /\ IsKind(m[i], Len(m[i].stack), "Letrec")
    /\ Top(m[i]).pc > 1
    /\ Top(m[i]).pc <= Len(Node(Top(m[i]).expr).varExprList) + 1
    /\ (i = 1 => gcs' = gcs)

\* the name of the variable whose right-hand side the top Letrec layer got back
RecordedName(M) == Node(Top(M).expr).varExprList[Top(M).pc - 1][1].name

RECURSIVE RunToEnd(_, _, _)
RunToEnd(M, E, fuel) ==
    IF fuel = 0 THEN M
    ELSE IF ~Running(M) THEN M
    ELSE IF AtSentinel(M) THEN M
    ELSE IF ~Defined(M, E) THEN Undefined(M)
    ELSE LET r == step(M, E) IN RunToEnd(r.m, r.store, fuel - 1)

\* the run of the program on a State nobody copies
SoloRun == RunToEnd(Construct(prog, 1, 1), << <<>> >>, 3 * Weight(prog))

\* C15: resumption equivalence: once S has been copied into S' at a step
\* boundary, each of the two States, stepped to completion in whatever
\* interleaving with the other, ends with the final value S has when nobody
\* copies it; neither raises an error or leaves defined behaviour on the way.
C15_ResumptionEquivalence ==
    \A i \in {1, 2} :
        IF m[1].phase = "destroyed" \/ m[2].phase = "destroyed" \/ m[i].phase = "none"
        THEN TRUE
        ELSE /\ m[i].phase = "live"
             /\ m[i].ret # "error"
             /\ IF AtSentinel(m[i])
                THEN AtSentinel(SoloRun) /\ ResultValue(m[i]) = ResultValue(SoloRun)
                ELSE TRUE

(* ---- C16 ---- *)

\* the AST nodes a State refers to: its layers' expr and its Closures' Lambdas
NodesOf(M) ==
    ({M.stack[k].expr : k \in 1..Len(M.stack)} \ {NullExpr})
    \cup {M.heap[j].fun : j \in {j \in 1..Len(M.heap) : M.heap[j].tag = "Closure"}}

\* C16: a copy refers to its own AST: every layer's expr and every Closure's
\* Lambda of State 2 is a node of the AST State 2 owns, the literal nodes of
\* that AST carry the Locations they have in the original, and State 2 can be
\* stepped after State 1 has been destroyed.
C16_CloneOwnsAst ==
    /\ m[2].phase \in {"live", "destroyed"} =>
            /\ \A ref \in NodesOf(m[2]) : ref.ast = m[2].expr
            /\ asts[m[2].expr].loc = PreAllocatedLocs(prog)
    /\ m[1].phase = "destroyed" => m[2].phase = "live"

(* ---- C18 ---- *)

IsArith == prog.kind = "IntrinsicCall" /\ prog.intrinsic \in {".+", ".-", ".*", "./", ".%"}

\* the mathematical result of (op a b), the division truncating
Exact(op, a, b) ==
    CASE op = ".+" -> a + b
      [] op = ".-" -> a - b
      [] op = ".*" -> a * b
      [] op = "./" -> TruncDiv(a, b)
      [] op = ".%" -> TruncMod(a, b)

\* C18: on every pair of Integers .+ .- .* return an Integer and raise no
\* error; ./ and .% raise "division by zero" exactly when the second argument
\* is 0 and return the truncated quotient or remainder otherwise.
C18_ArithmeticTotal ==
    IF ~IsArith THEN TRUE
    ELSE LET op == prog.intrinsic
             a == stoi(prog.argList[1].val).value
             b == stoi(prog.argList[2].val).value
             byZero == op \in {"./", ".%"} /\ b = 0
         IN  /\ m[1].phase = "live"
             /\ m[1].ret = "error" => byZero /\ m[1].err = "division by zero"
             /\ IF AtSentinel(m[1])
                THEN ~byZero /\ ResultValue(m[1]) = Integer(Exact(op, a, b))
                ELSE TRUE

(* ---- C19 ---- *)

IsRoundTrip == prog.kind = "IntrinsicCall" /\ prog.intrinsic = ".unquote"

\* C19: unquote(quote(s)) returns s and raises no error, for every string s
\* over the supported characters, backslash, double quote, tab and newline
\* included: (.unquote (.quote s)) ends with the String s.
C19_QuoteRoundTrip ==
    IF ~IsRoundTrip THEN TRUE
    ELSE /\ m[1].phase = "live"
         /\ m[1].ret # "error"
         /\ IF AtSentinel(m[1])
            THEN LET s == CHOOSE t \in Strings : prog = RoundTripProgram(t)
                     n == Len(m[1].heap)
                 IN  /\ m[1].heap[n - 2] = String(s)
                     /\ m[1].heap[n - 1] = String(quote(s))
                     /\ ResultValue(m[1]) = String(s)
                     /\ unquote(quote(s)) = [ok |-> TRUE, val |-> s]
            ELSE TRUE

\* the round trip of the string backslash, double quote has ended
C19_Witness ==
    /\ IsRoundTrip /\ AtSentinel(m[1])
    /\ ResultValue(m[1]) = String(<<"\\", "\"">>)
    /\ m[1].heap[Len(m[1].heap) - 1] = String(<<"\"", "\\", "\\", "\\", "\"", "\"">>)

(* ---- C17 ---- *)

\* C17: every runtime error comes with a stack trace: a State whose step()
\* has raised an error has written, before raising it, the source locations
\* of all frame layers on its stack, bottom to top.
C17_ErrorsTraced ==
    \A i \in {1, 2} :
        (m[i].phase = "live" /\ m[i].ret = "error") =>
            m[i].trace # <<>> /\ m[i].trace = getFrameSLs(m[i])

(* ---- C20 ---- *)

\* C20: (@ x e): the step that gets e back as a Closure sets resultLoc to the
\* Location bound to x in the Closure's captured env and allocates nothing;
\* when the value is not a Closure, or x is not bound there, it raises a
\* runtime error. letrec (make lambda (x) lambda () x) (@ x (make 7)) ends
\* with 7.
C20_AtAccess ==
    /\ [](\A i \in {1, 2} :
            (prog = MakeProgram /\ AtSentinel(m[i])) => ResultValue(m[i]) = Integer(7))
    /\ [][\A i \in {1, 2} :
            (/\ Running(m[i]) /\ m'[i].phase = "live"
             /\ IsKind(m[i], Len(m[i].stack), "At")
             /\ Top(m[i]).pc = 1
             /\ (i = 1 => gcs' = gcs))
            => LET c == HeapAt(m[i], m[i].resultLoc)
                   x == Node(Top(m[i]).expr).var.name
               IN  IF c.tag # "Closure"
                   THEN m'[i].ret = "error" /\ m'[i].err = "@ wrong type"
                   ELSE IF \A b \in 1..Len(c.env) : c.env[b][1] # x
                   THEN m'[i].ret = "error" /\ m'[i].err = "undefined variable"
                   ELSE LET b == Max({b \in 1..Len(c.env) : c.env[b][1] = x})
                        IN  /\ m'[i].ret = "true"
                            /\ m'[i].resultLoc = c.env[b][2]
                            /\ m'[i].heap = m[i].heap
                            /\ m'[i].stack = PopBack(m[i].stack)]_vars

\* @ has fetched x from the closure (make 7) returned: the result is the
\* pre-allocated slot of the literal 7, which the call bound x to
C20_Witness ==
    /\ prog = MakeProgram /\ AtSentinel(m[2])
    /\ ResultValue(m[2]) = Integer(7)
    /\ m[2].resultLoc = 0
    /\ Len(m[2].heap) = 4

(* ---- C21 ---- *)

\* the paths of the nodes of n, n at path p
RECURSIVE NodePaths(_, _)
NodePaths(n, p) ==
    {p} \cup UNION {NodePaths(Children(n)[c], Append(p, c)) : c \in 1..Len(Children(n))}

\* whether the names bound by the node (parameters, letrec variables) repeat
RepeatsName(n) ==
    LET names == IF n.kind = "Lambda" THEN [i \in 1..Len(n.varList) |-> n.varList[i].name]
                 ELSE IF n.kind = "Letrec"
                 THEN [i \in 1..Len(n.varExprList) |-> n.varExprList[i][1].name]
                 ELSE <<>>
    IN  Cardinality(SeqRange(names)) < Len(names)

\* whether path q comes before path r when a node is visited before its
\* children and the children from left to right
RECURSIVE VisitedBefore(_, _)
VisitedBefore(q, r) ==
    IF q = <<>> THEN TRUE
    ELSE IF r = <<>> THEN FALSE
    ELSE IF Head(q) # Head(r) THEN Head(q) < Head(r)
    ELSE VisitedBefore(Tail(q), Tail(r))

\* C21: the construction of a State fails with a semantic error located at
\* the offending node exactly when a Lambda of the program, at any depth,
\* repeats a parameter name or a Letrec repeats a variable name; it fails
\* with no literal pre-allocated and no step taken. In every constructed
\* State no Lambda and no Letrec of the program repeats a name.
C21_DuplicatesRejected ==
    \A i \in {1, 2} :
        LET bad == {q \in NodePaths(prog, <<>>) : RepeatsName(NodeAt(prog, q))}
        IN  IF bad = {}
            THEN m[i].phase # "failed"
            ELSE /\ m[i].phase = "failed"
                 /\ m[i].err = "sema"
                 /\ m[i].errAt.path \in bad
                 /\ \A q \in bad : VisitedBefore(m[i].errAt.path, q)
                 /\ m[i].heap = <<>> /\ m[i].numLiterals = 0 /\ m[i].stack = <<>>
                 /\ \A q \in DOMAIN asts[i].loc : asts[i].loc[q] = -1
                 /\ steps = 0 /\ calls = 0

\* the construction has failed at a Letrec nested in a Lambda
C21_Witness ==
    /\ m[1].phase = "failed" /\ m[2].phase = "failed"
    /\ m[1].errAt.path = <<2, 2>>
    /\ NodeAt(prog, m[1].errAt.path).kind = "Letrec"

(* ---- C22 ---- *)

\* how the run of a State has ended: the error raised, or the final value, a
\* Closure shown as its Lambda with the names and Values it has captured
Outcome(M) ==
    IF M.ret = "error" THEN [error |-> M.err]
    ELSE LET v == ResultValue(M)
         IN  IF v.tag # "Closure" THEN [value |-> v]
             ELSE [value |-> [tag |-> "Closure", fun |-> Node(v.fun),
                              env |-> [j \in 1..Len(v.env) |->
                                          <<v.env[j][1], HeapAt(M, v.env[j][2])>>]]]

\* the outcomes of the applications of CallCases
CallOutcomes ==
    <<[value |-> Integer(3)],
      [error |-> "wrong number of arguments"],
      [error |-> "type error on intrinsic call"],
      [value |-> [tag |-> "Closure", fun |-> LambdaNode(<<>>, Var("x")),
                  env |-> << <<"x", Integer(7)>> >>]],
      [value |-> Integer(8)],
      [error |-> "undefined variable"]>>

\* C22: a Lambda bound by letrec and called through its name behaves as the
\* anonymous call: for each case, letrec (f L) (f a1 ... an) and
\* (L a1 ... an) both run to the end within the steps their nodes allow and
\* end with the same value or the same runtime error; and the factorial that
\* calls itself through its letrec name gives 120 on 5.
C22_FirstClassCall ==
    \A i \in {1, 2} :
        /\ \A k \in 1..Len(CallCases) : \A named \in BOOLEAN :
                prog = CallForm(CallCases[k], named) =>
                    /\ m[i].phase = "live"
                    /\ steps <= Weight(prog)
                    /\ Running(m[i]) /\ ~AtSentinel(m[i]) => Defined(m[i], envStore)
                    /\ IF m[i].ret = "error" \/ AtSentinel(m[i])
                       THEN Outcome(m[i]) = CallOutcomes[k]
                       ELSE TRUE
        /\ prog = FactProgram(5) =>
                /\ m[i].phase = "live" /\ m[i].ret # "error"
                /\ Running(m[i]) /\ ~AtSentinel(m[i]) => Defined(m[i], envStore)
                /\ AtSentinel(m[i]) => ResultValue(m[i]) = Integer(120)

\* the named form of the higher-order case has ended with 8 on both States
C22_Witness ==
    /\ prog = CallForm(CallCases[5], TRUE)
    /\ \A i \in {1, 2} : AtSentinel(m[i]) /\ m[i].ret # "error" /\ ResultValue(m[i]) = Integer(8)

(* ---- C23 ---- *)

\* the index of the topmost frame layer of a stack
NearestFrame(stack) == Max({k \in 1..Len(stack) : stack[k].frame})

\* C23: a successful call step of an ExprCall in tail position leaves the
\* layers that were below the nearest frame layer (the ExprCall layer itself
\* when it is a frame) and the new frame on top of them, so the stack does
\* not grow; one not in tail position leaves the whole stack, the ExprCall
\* layer with its pc advanced, and the new frame on top.
C23_TailCallStep ==
    [][\A i \in {1, 2} :
        (/\ AtCallStep(m[i]) /\ m'[i].phase = "live" /\ m'[i].ret = "true"
         /\ (i = 1 => gcs' = gcs))
        => LET old == m[i].stack
               d == Len(old)
               new == m'[i].stack
               callee == HeapAt(m[i], CallLocal(m[i])[1])
           IN  /\ Top(m'[i]).frame /\ Top(m'[i]).pc = 0 /\ Top(m'[i]).local = <<>>
               /\ Top(m'[i]).expr =
                    NodeRef(callee.fun.ast, Append(callee.fun.path, Len(Node(callee.fun).varList) + 1))
               /\ IF TailBit(old[d].expr.path)
                  THEN /\ PopBack(new) = SubSeq(old, 1, NearestFrame(old) - 1)
                       /\ Len(new) <= d
                  ELSE /\ Len(new) = d + 1
                       /\ SubSeq(new, 1, d - 1) = SubSeq(old, 1, d - 1)
                       /\ new[d] = [old[d] EXCEPT !.pc = @ + 1, !.local = CallLocal(m[i])]]_vars

\* the loop has called itself in tail position: the frame of the call
\* loop(MaxLoopN - 1) stands where the frame of loop(MaxLoopN) stood
C23_Witness ==
    /\ prog = LoopProgram(MaxLoopN) /\ m[2].phase = "live"
    /\ Len(m[2].stack) = 4 /\ Top(m[2]).frame /\ Top(m[2]).pc = 0
    /\ lookup("n", envStore[Top(m[2]).env]) # <<>>
    /\ HeapAt(m[2], lookup("n", envStore[Top(m[2]).env])[1]) = Integer(MaxLoopN - 1)

(* ---- C24 ---- *)

\* C24: the call step of an ExprCall raises "calling a non-callable" when the
\* callee Location holds no Closure and "wrong number of arguments" when the
\* Closure's parameters are not as many as the arguments; it then pushes no
\* frame and pops no layer. No earlier step of the ExprCall raises an error:
\* the checks come after all arguments have been evaluated.
C24_CallChecks ==
    [][\A i \in {1, 2} :
        (/\ Running(m[i]) /\ m'[i].phase = "live" /\ m'[i] # m[i]
         /\ IsKind(m[i], Len(m[i].stack), "ExprCall")
         /\ (i = 1 => gcs' = gcs))
        => LET L == Top(m[i])
               N == Len(Node(L.expr).argList)
               callee == HeapAt(m[i], CallLocal(m[i])[1])
               raised(msg) ==
                    /\ m'[i].ret = "error" /\ m'[i].err = msg
                    /\ m'[i].errAt = L.expr
                    /\ Len(m'[i].stack) = Len(m[i].stack)
                    /\ PopBack(m'[i].stack) = PopBack(m[i].stack)
                    /\ Top(m'[i]).expr = L.expr /\ ~Top(m'[i]).frame
                    /\ m'[i].heap = m[i].heap
           IN  IF L.pc # N + 2 THEN m'[i].ret = "true"
               ELSE /\ Len(CallLocal(m[i])) = N + 1
                    /\ IF callee.tag # "Closure" THEN raised("calling a non-callable")
                       ELSE IF Len(Node(callee.fun).varList) # N
                       THEN raised("wrong number of arguments")
                       ELSE m'[i].ret = "true"]_vars

\* (1 2) has raised "calling a non-callable" with the callee and the
\* argument both evaluated
C24_Witness ==
    /\ prog = NonCallableProgram
    /\ m[2].phase = "live" /\ m[2].ret = "error" /\ m[2].err = "calling a non-callable"
    /\ Len(m[2].stack) = 2 /\ Len(Top(m[2]).local) = 2
    /\ HeapAt(m[2], Top(m[2]).local[2]) = Integer(2)

(* ---- C25 ---- *)

\* where an If layer can be: on top, or below its condition at pc = 1, or
\* below one of its two branches at pc = 2
IfProgress(M, k) ==
    LET L == M.stack[k]
        top == k = Len(M.stack)
    IN  CASE L.pc = 0 -> top
          [] L.pc = 1 -> top \/ EvaluatesChild(M, k, 1)
          [] OTHER -> L.pc = 2 /\ (top \/ EvaluatesChild(M, k, 2) \/ EvaluatesChild(M, k, 3))

\* C25: once the condition of an If has been evaluated the step pushes one
\* branch: branch2 for Integer 0, branch1 for any other Integer; for a value
\* that is no Integer it raises "wrong cond type" and pushes nothing. The
\* step that finds the branch completed pops the If and leaves resultLoc as
\* the branch set it, so no second branch is ever evaluated.
C25_IfBranch ==
    /\ [](\A i \in {1, 2} : Running(m[i]) => \A k \in 2..Len(m[i].stack) :
            IsKind(m[i], k, "If") => IfProgress(m[i], k))
    /\ [][\A i \in {1, 2} :
            (/\ Running(m[i]) /\ m'[i].phase = "live" /\ m'[i] # m[i]
             /\ IsKind(m[i], Len(m[i].stack), "If")
             /\ Top(m[i]).pc >= 1
             /\ (i = 1 => gcs' = gcs))
            => LET d == Len(m[i].stack)
                   L == Top(m[i])
                   c == HeapAt(m[i], m[i].resultLoc)
               IN  IF L.pc >= 2
                   THEN /\ m'[i].ret = "true"
                        /\ m'[i].stack = PopBack(m[i].stack)
                        /\ m'[i].resultLoc = m[i].resultLoc
                        /\ m'[i].heap = m[i].heap
                   ELSE IF c.tag # "Integer"
                   THEN /\ m'[i].ret = "error" /\ m'[i].err = "wrong cond type"
                        /\ Len(m'[i].stack) = d
                   ELSE /\ m'[i].ret = "true"
                        /\ Len(m'[i].stack) = d + 1
                        /\ m'[i].stack[d].pc = 2
                        /\ Top(m'[i]).pc = 0
                        /\ Top(m'[i]).expr =
                              NodeRef(L.expr.ast,
                                      Append(L.expr.path, IF c.value = 0 THEN 3 ELSE 2))]_vars

\* if -3 10 20 has ended with 10
C25_Witness ==
    /\ prog = IfNode(SignedLit(-3), IntLit(10), IntLit(20))
    /\ \A i \in {1, 2} : AtSentinel(m[i]) /\ ResultValue(m[i]) = Integer(10)

(* ---- C26 ---- *)

\* the newest binding of name x in env
Newest(env, x) == Max({b \in 1..Len(env) : env[b][1] = x})

\* C26: the Closure a Lambda step creates captures, of the current env, the
\* newest binding of each name of the node's freeVars that is bound there,
\* once each and nothing else, in the order the bindings have in the env; a
\* free name the env does not bind is left out and no error is raised.
C26_MinimalCapture ==
    [][\A i \in {1, 2} :
        (/\ Running(m[i]) /\ m'[i].phase = "live" /\ m'[i] # m[i]
         /\ IsKind(m[i], Len(m[i].stack), "Lambda")
         /\ (i = 1 => gcs' = gcs))
        => LET L == Top(m[i])
               env == envStore[L.env]
               used == computeFreeVars(Node(L.expr)) \cap Names(env)
               c == HeapAt(m'[i], m'[i].resultLoc)
           IN  /\ m'[i].ret = "true"
               /\ m'[i].stack = PopBack(m[i].stack)
               /\ m'[i].resultLoc = Len(m[i].heap)
               /\ m'[i].heap = Append(m[i].heap, c)
               /\ c.tag = "Closure" /\ c.fun = L.expr
               /\ Len(c.env) = Cardinality(used)
               /\ \A j \in 1..Len(c.env) :
                    /\ c.env[j][1] \in used
                    /\ c.env[j] = env[Newest(env, c.env[j][1])]
                    /\ \A k \in 1..(j - 1) :
                            Newest(env, c.env[k][1]) < Newest(env, c.env[j][1])]_vars

\* lambda () { a x z } was evaluated in the env x, a, x, y: its Closure holds
\* a and the inner x, and @ x has fetched that x
C26_Witness ==
    /\ prog = CaptureProgram /\ AtSentinel(m[2]) /\ ResultValue(m[2]) = Integer(2)
    /\ \E j \in 1..Len(m[2].heap) :
            /\ m[2].heap[j].tag = "Closure"
            /\ Len(m[2].heap[j].env) = 2
            /\ m[2].heap[j].env[1][1] = "a" /\ m[2].heap[j].env[2][1] = "x"
            /\ m[2].heap[j].env[2][2] = m[2].resultLoc

(* ---- C27 ---- *)

\* C27: a Variable step makes resultLoc the Location of the newest binding of
\* the name in the layer's env, allocates nothing and pops the layer; when the
\* env does not bind the name the step raises "undefined variable" at the
\* node and the layer stays on the stack.
C27_VariableLookup ==
    [][\A i \in {1, 2} :
        (/\ Running(m[i]) /\ m'[i] # m[i]
         /\ IsKind(m[i], Len(m[i].stack), "Variable")
         /\ (i = 1 => gcs' = gcs))
        => LET L == Top(m[i])
               env == envStore[L.env]
               hits == {b \in 1..Len(env) : env[b][1] = Node(L.expr).name}
           IN  /\ m'[i].heap = m[i].heap
               /\ IF hits = {}
                  THEN /\ m'[i].ret = "error"
                       /\ m'[i].err = "undefined variable"
                       /\ m'[i].errAt = L.expr
                       /\ m'[i].stack = m[i].stack
                       /\ m'[i].resultLoc = m[i].resultLoc
                  ELSE /\ m'[i].ret = "true"
                       /\ m'[i].resultLoc = env[Max(hits)][2]
                       /\ m'[i].stack = PopBack(m[i].stack)]_vars

\* in letrec (x 1 a 5) letrec (x 2 y x) ... the right-hand side x of y has
\* been looked up in the env x, a, x, y: it is the inner x, which holds 2
C27_Witness ==
    /\ prog = CaptureProgram /\ Running(m[2])
    /\ IsKind(m[2], Len(m[2].stack), "Letrec") /\ Top(m[2]).pc = 3
    /\ Len(Env(m[2], Len(m[2].stack))) = 4
    /\ m[2].resultLoc = Env(m[2], Len(m[2].stack))[3][2]
    /\ m[2].resultLoc # Env(m[2], Len(m[2].stack))[1][2]
    /\ ResultValue(m[2]) = Integer(2)

(* ---- C28 ---- *)

\* the number of variables of the Letrec of layer k
LetrecSize(M, k) == Len(Node(M.stack[k].expr).varExprList)

\* the Letrec layers from layer k up that have pushed their bindings to env e
ActiveLetrecs(M, e, k) ==
    {j \in k..Len(M.stack) :
        M.stack[j].env = e /\ IsKind(M, j, "Letrec") /\ M.stack[j].pc >= 1}

RECURSIVE SumSizes(_, _)
SumSizes(M, S) ==
    IF S = {} THEN 0
    ELSE LET j == CHOOSE x \in S : TRUE IN LetrecSize(M, j) + SumSizes(M, S \ {j})

\* the binding the Letrec of layer k pushed for its variable j: the Letrecs
\* above it in the frame have pushed theirs behind it
Reserved(M, k, j) ==
    LET env == Env(M, k)
    IN  env[Len(env) - SumSizes(M, ActiveLetrecs(M, M.stack[k].env, k)) + j]

\* C28: at pc = 0 a Letrec with N variables appends N bindings, each naming a
\* fresh slot that holds Void. While the Letrec runs its bindings stay where
\* it pushed them, whatever nested Letrecs and calls have run; no two
\* reserved slots coincide, and a slot stays Void until its right-hand side is
\* back. The step that gets right-hand side j back finds by name the slot
\* reserved for variable j, writes the result there and nowhere else; no
\* other step of the Letrec writes the heap.
C28_LetrecSlots ==
    /\ [](\A i \in Live :
            /\ Len(envStore[m[i].stack[1].env]) =
                    SumSizes(m[i], ActiveLetrecs(m[i], m[i].stack[1].env, 1))
            /\ \A k \in 2..Len(m[i].stack) :
                    (IsKind(m[i], k, "Letrec") /\ m[i].stack[k].pc >= 1)
                    => \A j \in 1..LetrecSize(m[i], k) :
                        /\ Reserved(m[i], k, j)[1] = Node(m[i].stack[k].expr).varExprList[j][1].name
                        /\ InHeap(m[i], Reserved(m[i], k, j)[2])
                        /\ (m[i].stack[k].pc <= j + 1
                                => HeapAt(m[i], Reserved(m[i], k, j)[2]) = Void)
                        /\ \A k2 \in 2..Len(m[i].stack) :
                            (IsKind(m[i], k2, "Letrec") /\ m[i].stack[k2].pc >= 1)
                            => \A j2 \in 1..LetrecSize(m[i], k2) :
                                <<k, j>> # <<k2, j2>>
                                => Reserved(m[i], k, j)[2] # Reserved(m[i], k2, j2)[2])
    /\ [][\A i \in {1, 2} :
            (/\ Running(m[i]) /\ m'[i].phase = "live" /\ m'[i].ret = "true"
             /\ IsKind(m[i], Len(m[i].stack), "Letrec")
             /\ (i = 1 => gcs' = gcs))
            => LET d == Len(m[i].stack)
                   L == Top(m[i])
                   n == Node(L.expr)
                   N == Len(n.varExprList)
                   env == envStore[L.env]
                   h == m[i].heap
               IN  CASE L.pc = 0 ->
                          /\ m'[i].heap = h \o [j \in 1..N |-> Void]
                          /\ envStore'[L.env] =
                                env \o [j \in 1..N |-> <<n.varExprList[j][1].name, Len(h) + j - 1>>]
                          /\ m'[i].stack = [m[i].stack EXCEPT ![d].pc = 1]
                     [] L.pc > 1 /\ L.pc <= N + 1 ->
                          LET slot == Reserved(m[i], d, L.pc - 1)[2]
                          IN  /\ lookup(n.varExprList[L.pc - 1][1].name, env) = <<slot>>
                              /\ HeapAt(m[i], slot) = Void
                              /\ m'[i].heap = [h EXCEPT ![slot + 1] = HeapAt(m[i], m[i].resultLoc)]
                              /\ envStore'[L.env] = env
                     [] OTHER -> m'[i].heap = h]_vars

\* in letrec (x 1 a letrec (a 7 g lambda () a) (g)) ... the nested Letrec,
\* which bound a and called g, has finished and the outer Letrec has recorded
\* its own a: the env is x, a again and both slots are written
C28_Witness ==
    /\ prog = CaptureProgram /\ Running(m[2]) /\ Len(m[2].stack) = 2
    /\ IsKind(m[2], 2, "Letrec") /\ m[2].stack[2].pc = 4
    /\ Len(Env(m[2], 2)) = 2
    /\ HeapAt(m[2], Reserved(m[2], 2, 1)[2]) = Integer(1)
    /\ HeapAt(m[2], Reserved(m[2], 2, 2)[2]) = Integer(7)
    /\ \E l \in 0..(Len(m[2].heap) - 1) :
            l # Reserved(m[2], 2, 2)[2] /\ l >= m[2].numLiterals /\ HeapAt(m[2], l) = Integer(7)

(* ---- C29 ---- *)

NameSeq(env) == [b \in 1..Len(env) |-> env[b][1]]

\* the names of the env of layer k without the bindings of the Letrecs that
\* run at layer k and above it in the frame: the env as layer k found it
NamesWhenPushed(M, E, k) ==
    LET env == E[M.stack[k].env]
    IN  NameSeq(SubSeq(env, 1, Len(env) - SumSizes(M, ActiveLetrecs(M, M.stack[k].env, k))))

\* C29: a layer pushed to evaluate a sub-expression finds the env of its
\* frame with some sequence of names, that sequence stays what the layer
\* found for as long as the layer is on the stack, and the step that pops the
\* layer by normal completion leaves the env with that sequence of names; in
\* particular the finishing step of a Letrec removes exactly the N bindings of
\* its own variables.
C29_EnvRestored ==
    [][\A i \in {1, 2} :
        (m[i].phase = "live" /\ m'[i].phase = "live")
        => LET d == Len(m[i].stack)
               L == Top(m[i])
           IN  /\ \A k \in 1..d :
                    (k <= Len(m'[i].stack) /\ m'[i].stack[k].env = m[i].stack[k].env
                        /\ m'[i].stack[k].expr = m[i].stack[k].expr)
                    => NamesWhenPushed(m'[i], envStore', k) = NamesWhenPushed(m[i], envStore, k)
               /\ (Len(m'[i].stack) = d + 1 /\ ~Top(m'[i]).frame)
                    => /\ Top(m'[i]).env = L.env
                       /\ NamesWhenPushed(m'[i], envStore', d + 1) = NameSeq(envStore'[L.env])
               /\ (m'[i].ret = "true" /\ m'[i].stack = PopBack(m[i].stack) /\ ~L.frame)
                    => /\ NameSeq(envStore'[L.env]) = NamesWhenPushed(m[i], envStore, d)
                       /\ IsKind(m[i], d, "Letrec")
                            => LET n == Node(L.expr)
                                   N == Len(n.varExprList)
                                   env == envStore[L.env]
                               IN  /\ Len(envStore'[L.env]) = Len(env) - N
                                   /\ \A j \in 1..N :
                                        env[Len(env) - N + j][1] = n.varExprList[j][1].name
                                   /\ \A b \in 1..(Len(env) - N) :
                                        envStore'[L.env][b][1] = env[b][1]]_vars

\* in letrec (x 1 a letrec (a 7 g lambda () a) (g)) ... the nested Letrec has
\* just finished: its a and g are gone from the env, which is x, a as it was
\* when the right-hand side was pushed, and its result 7 is not yet recorded
C29_Witness ==
    /\ prog = CaptureProgram /\ Running(m[2]) /\ Len(m[2].stack) = 2
    /\ IsKind(m[2], 2, "Letrec") /\ m[2].stack[2].pc = 3
    /\ NameSeq(Env(m[2], 2)) = <<"x", "a">>
    /\ ResultValue(m[2]) = Integer(7)
    /\ HeapAt(m[2], Env(m[2], 2)[2][2]) = Void

(* ---- C30 ---- *)

Frames(M) == {k \in 1..Len(M.stack) : M.stack[k].frame}

\* the expr of layer k is the body of a Lambda
IsLambdaBody(M, k) ==
    LET x == M.stack[k].expr
    IN  /\ x # NullExpr /\ x.path # <<>>
        /\ LET parent == NodeRef(x.ast, SubSeq(x.path, 1, Len(x.path) - 1))
           IN  /\ Node(parent).kind = "Lambda"
               /\ x.path = LambdaBodyPath(parent.path, Node(parent))

\* C30: in every State the bottom layer is the sentinel frame and every other
\* frame layer runs the body of a Lambda; no two frame layers of the stack
\* have the same environment object, and a non-frame layer has the
\* environment object of the nearest frame layer below it. Hence the frame
\* layers' envs are all the envs of the stack, each once, and a collection
\* leaves every one of them relocated exactly once.
C30_FrameOwnsEnv ==
    /\ [](\A i \in Live :
            /\ 1 \in Frames(m[i]) /\ m[i].stack[1].expr = NullExpr
            /\ \A k \in Frames(m[i]) \ {1} : IsLambdaBody(m[i], k)
            /\ \A k1, k2 \in Frames(m[i]) :
                    k1 # k2 => m[i].stack[k1].env # m[i].stack[k2].env
            /\ \A k \in (1..Len(m[i].stack)) \ Frames(m[i]) :
                    m[i].stack[k].env =
                        m[i].stack[Max({f \in Frames(m[i]) : f < k})].env
            /\ {m[i].stack[k].env : k \in 1..Len(m[i].stack)} =
                    {m[i].stack[f].env : f \in Frames(m[i])})
    /\ [][(gcs' = gcs + 1 /\ m'[1].phase = "live")
            => LET before == step(m[1], step(m[2], envStore).store)
               IN  \A k \in 1..Len(m'[1].stack) :
                        envStore'[m'[1].stack[k].env] =
                            RelocEnv(lastRelocation', before.store[before.m.stack[k].env])]_vars

\* a collection has moved slots of State 1 while a called Lambda's body was
\* running with layers of its own above its frame, and the env of that frame
\* has a binding
C30_Witness ==
    /\ m[1].phase = "live" /\ gcs >= 1 /\ DOMAIN lastRelocation # {}
    /\ Cardinality(Frames(m[1])) >= 2
    /\ ~Top(m[1]).frame /\ Env(m[1], Len(m[1].stack)) # <<>>
    /\ Top(m[1]).env # m[1].stack[1].env

(* ---- C31 ---- *)

\* State 1 and the Env store as the step of this loop iteration leaves them,
\* before the collection that follows it
PreGc == step(m[1], step(m[2], envStore).store)

\* a collection has run in this loop iteration of State 1 and has returned
Collected == gcs' = gcs + 1 /\ m'[1].phase = "live"

\* the roots: every layer's local, every frame layer's env, resultLoc
Roots(M, E) ==
    UNION {SeqRange(M.stack[k].local) : k \in 1..Len(M.stack)}
    \cup UNION {EnvLocs(E[M.stack[k].env]) : k \in Frames(M)}
    \cup (IF M.resultLoc # Uninit THEN {M.resultLoc} ELSE {})

\* the least set of Locations that holds S and the bindings of every Closure in it
RECURSIVE ReachFrom(_, _)
ReachFrom(M, S) ==
    LET T == S \cup UNION {EnvLocs(HeapAt(M, l).env) :
                              l \in {x \in S : HeapAt(M, x).tag = "Closure"}}
    IN  IF T = S THEN S ELSE ReachFrom(M, T)

\* the non-literal slots reachable from the roots
LiveSlots(M, E) == {l \in ReachFrom(M, Roots(M, E)) : l >= M.numLiterals}

\* C31: after a collection the heap is the numLiterals literal slots followed
\* by exactly the non-literal slots that were reachable from the roots, in
\* the order they had before the collection: the reachable slot with r
\* reachable non-literal slots before it is slot numLiterals + r, and holds
\* the Value it held (its captured Locations renamed).
C31_ExactCollection ==
    [][Collected
        => LET M == PreGc.m
               live == LiveSlots(M, PreGc.store)
               rank(l) == M.numLiterals + Cardinality({x \in live : x < l})
           IN  /\ Len(m'[1].heap) = M.numLiterals + Cardinality(live)
               /\ \A l \in 0..(M.numLiterals - 1) : HeapAt(m'[1], l) = HeapAt(M, l)
               /\ \A l \in live :
                    /\ reloc(lastRelocation', l) = rank(l)
                    /\ HeapAt(m'[1], rank(l)) = RelocValue(lastRelocation', HeapAt(M, l))]_vars

\* a collection of State 1 has dropped garbage and kept the Closure bound to
\* c, whose captured x holds the sum 7 in a slot that no root names
C31_Witness ==
    /\ m[1].phase = "live" /\ gcs >= 1 /\ Len(m[1].heap) < GcInitialSlack
    /\ lookup("c", Env(m[1], 1)) # <<>>
    /\ LET c == lookup("c", Env(m[1], 1))[1]
       IN  /\ HeapAt(m[1], c).tag = "Closure" /\ Len(HeapAt(m[1], c).env) = 1
           /\ HeapAt(m[1], c).env[1][2] >= m[1].numLiterals
           /\ HeapAt(m[1], c).env[1][2] \notin Roots(m[1], envStore)
           /\ HeapAt(m[1], HeapAt(m[1], c).env[1][2]) = Integer(7)

(* ---- C32 ---- *)

\* the pairs of Locations State A with store E and State B with store F hold
\* in the same cell of the stack or in resultLoc
CellPairs(A, E, B, F) ==
    UNION {{<<A.stack[k].local[j], B.stack[k].local[j]>> : j \in 1..Len(A.stack[k].local)}
           \cup {<<E[A.stack[k].env][j][2], F[B.stack[k].env][j][2]>>
                    : j \in 1..Len(E[A.stack[k].env])}
           : k \in 1..Len(A.stack)}
    \cup (IF A.resultLoc = Uninit THEN {} ELSE {<<A.resultLoc, B.resultLoc>>})

\* C32: a collection leaves the stack depth, each layer's expr, pc, frame bit
\* and env object, the names of every env and numLiterals unchanged, and puts
\* into every Location cell (each entry of each local, each binding of each
\* env of the stack, resultLoc once assigned, each binding of each surviving
\* Closure) the old-to-new map applied once to what the cell held; every cell
\* then denotes the Value it denoted before, Closures' captured bindings being
\* related in the same way.
C32_RelocationConsistent ==
    [][Collected
        => LET M == PreGc.m
               E == PreGc.store
               N == m'[1]
               rel == lastRelocation'
           IN  /\ Len(N.stack) = Len(M.stack) /\ N.numLiterals = M.numLiterals
               /\ N.expr = M.expr
               /\ \A k \in 1..Len(M.stack) :
                    /\ N.stack[k].expr = M.stack[k].expr /\ N.stack[k].pc = M.stack[k].pc
                    /\ N.stack[k].frame = M.stack[k].frame /\ N.stack[k].env = M.stack[k].env
                    /\ N.stack[k].local = [j \in 1..Len(M.stack[k].local) |->
                                                reloc(rel, M.stack[k].local[j])]
                    /\ envStore'[N.stack[k].env] =
                            [b \in 1..Len(E[M.stack[k].env]) |->
                                <<E[M.stack[k].env][b][1], reloc(rel, E[M.stack[k].env][b][2])>>]
               /\ M.resultLoc # Uninit => N.resultLoc = reloc(rel, M.resultLoc)
               /\ \A l \in LiveSlots(M, E) :
                    HeapAt(M, l).tag = "Closure"
                    => /\ HeapAt(N, reloc(rel, l)).fun = HeapAt(M, l).fun
                       /\ HeapAt(N, reloc(rel, l)).env =
                            [b \in 1..Len(HeapAt(M, l).env) |->
                                <<HeapAt(M, l).env[b][1], reloc(rel, HeapAt(M, l).env[b][2])>>]
               /\ \A p \in RelatedPairs(M, N, {}, CellPairs(M, E, N, envStore')) :
                    InHeap(M, p[1]) /\ InHeap(N, p[2]) /\ ValuesAgree(M, N, p)]_vars

\* a collection of State 1 has moved a slot that a Closure on the heap
\* captures, and a local and resultLoc are in use
C32_Witness ==
    /\ m[1].phase = "live" /\ gcs >= 1 /\ m[1].resultLoc # Uninit
    /\ \E k \in 1..Len(m[1].stack) : m[1].stack[k].local # <<>>
    /\ \E j \in 1..Len(m[1].heap) :
            /\ m[1].heap[j].tag = "Closure"
            /\ \E b \in 1..Len(m[1].heap[j].env) :
                    m[1].heap[j].env[b][2] \in {lastRelocation[l] : l \in DOMAIN lastRelocation}

(* ---- C33 ---- *)

\* C33: execute() starts with the threshold numLiterals + 64. A loop iteration
\* runs a collection exactly when its step returned true and left more slots
\* on the heap than the threshold; a collection that returns sets the
\* threshold to twice the size of the heap it leaves, and an iteration without
\* one keeps the threshold. Hence at the start of every loop iteration the
\* heap has no more slots than the threshold.
C33_ThresholdPolicy ==
    /\ []((m[1].phase = "live" /\ gcs = 0)
            => gc_threshold = m[1].numLiterals + GcInitialSlack)
    /\ [](Running(m[1]) => Len(m[1].heap) <= gc_threshold)
    /\ [][(Running(m[1]) /\ Running(m[2]))
            => LET due == PreGc.m.ret = "true" /\ Len(PreGc.m.heap) > gc_threshold
               IN  /\ m'[1].phase = "live" => (gcs' = gcs + 1) = due
                   /\ m'[1].phase # "live" => due
                   /\ gcs' \in {gcs, gcs + 1}
                   /\ gc_threshold' = IF Collected THEN 2 * Len(m'[1].heap) ELSE gc_threshold
                   /\ ~due => m'[1] = PreGc.m]_vars

\* execute() has collected twice: the threshold is twice the heap the second
\* collection left, which is not the initial threshold
C33_Witness ==
    /\ Running(m[1]) /\ gcs >= 2
    /\ gc_threshold = 2 * Len(m[1].heap)
    /\ gc_threshold < m[1].numLiterals + GcInitialSlack
    /\ Len(m[1].heap) > m[1].numLiterals

(* ---- C34 ---- *)

Prefix(path, j) == SubSeq(path, 1, j)

\* child i of node n hands the value of n on as it is: the body of a Letrec,
\* a branch of an If, the last element of a Sequence
PassesValue(n, i) ==
    \/ n.kind = "Letrec" /\ i = 2 * Len(n.varExprList) + 1
    \/ n.kind = "If" /\ i \in {2, 3}
    \/ n.kind = "Sequence" /\ i = Len(n.exprList)

\* the node at path is the body of a Lambda
IsBody(path) ==
    /\ path # <<>>
    /\ NodeAt(prog, Prefix(path, Len(path) - 1)).kind = "Lambda"
    /\ path[Len(path)] = Len(NodeAt(prog, Prefix(path, Len(path) - 1)).varList) + 1

\* the value of the node at path is the value of a Lambda body above it (or
\* the node is that body)
InTailPosition(path) ==
    \E b \in 1..Len(path) :
        /\ IsBody(Prefix(path, b))
        /\ \A j \in (b + 1)..Len(path) :
                PassesValue(NodeAt(prog, Prefix(path, j - 1)), path[j])

\* C34: the tail bit static analysis gives a node is true iff the node is the
\* body of a Lambda or is reached from one through Letrec bodies, If branches
\* and last Sequence elements only; so the root, right-hand sides, conditions,
\* earlier Sequence elements, arguments, callees and the sub-nodes of At are
\* not tail, and no node outside every Lambda is.
C34_TailMarking ==
    \A path \in NodePaths(prog, <<>>) :
        /\ TailBit(path) = InTailPosition(path)
        /\ path = <<>> => ~TailBit(path)
        /\ (\A b \in 1..Len(path) : ~IsBody(Prefix(path, b))) => ~TailBit(path)
        /\ path # <<>> =>
             LET parent == NodeAt(prog, Prefix(path, Len(path) - 1))
                 i == path[Len(path)]
             IN  CASE IsBody(path) -> TailBit(path)
                   [] PassesValue(parent, i) ->
                        TailBit(path) = TailBit(Prefix(path, Len(path) - 1))
                   [] OTHER -> ~TailBit(path)

\* the program whose Lambda body is a Letrec over a Sequence ending in an If
\* has run to its value 5: (h 5) and (g) are tail, (.void), (h 0), the
\* right-hand sides and the sub-nodes of @ are not
C34_Witness ==
    /\ prog.kind = "ExprCall" /\ prog.expr.kind = "Lambda"
    /\ prog.expr.expr.kind = "Letrec" /\ prog.expr.expr.expr.kind = "Sequence"
    /\ AtSentinel(m[2]) /\ m[2].ret = "false" /\ ResultValue(m[2]) = Integer(5)
    /\ TailBit(<<1, 2>>) /\ TailBit(<<1, 2, 5>>) /\ TailBit(<<1, 2, 5, 2>>)
    /\ TailBit(<<1, 2, 5, 2, 2>>) /\ TailBit(<<1, 2, 5, 2, 3>>)
    /\ ~TailBit(<<1, 2, 5, 1>>) /\ ~TailBit(<<1, 2, 5, 2, 1>>)
    /\ ~TailBit(<<1, 2, 4>>) /\ ~TailBit(<<1, 2, 4, 2>>) /\ ~TailBit(<<1>>)

(* ---- C35 ---- *)

\* what the statement takes the freeVars of node n to be: a Variable has its
\* own name, a Lambda its body's without its parameters, a Letrec its
\* right-hand sides' and body's without the names it binds, any other node
\* its children's
RECURSIVE OccurFree(_)
OccurFree(n) ==
    CASE n.kind = "Variable" -> {n.name}
      [] n.kind = "Lambda" ->
            OccurFree(n.expr) \ {n.varList[i].name : i \in 1..Len(n.varList)}
      [] n.kind = "Letrec" ->
            (OccurFree(n.expr)
                \cup UNION {OccurFree(n.varExprList[i][2]) : i \in 1..Len(n.varExprList)})
            \ {n.varExprList[i][1].name : i \in 1..Len(n.varExprList)}
      [] OTHER -> UNION {OccurFree(Children(n)[c]) : c \in 1..Len(Children(n))}

\* C35 as stated: after static analysis the freeVars set of every node of the
\* AST, parameter and binding-name nodes included, is the set of identifiers
\* that occur free in the node, every node other than Variable, Lambda and
\* Letrec having the union of its children's sets.
C35_FreeVarsExact ==
    \A path \in NodePaths(prog, <<>>) : freeVars(path) = OccurFree(NodeAt(prog, path))

\* the node at path stands for a name, not an expression: a parameter of a
\* Lambda, a name a Letrec binds, the name an At selects
IsNameNode(path) ==
    /\ path # <<>>
    /\ LET parent == NodeAt(prog, Prefix(path, Len(path) - 1))
           i == path[Len(path)]
       IN  \/ parent.kind = "Lambda" /\ i <= Len(parent.varList)
           \/ parent.kind = "Letrec" /\ i % 2 = 1 /\ i < 2 * Len(parent.varExprList) + 1
           \/ parent.kind = "At" /\ i = 1

\* the identifiers that occur free in expression n: the name an At selects
\* is looked up in the Closure, not in the environment, and is not one
RECURSIVE FreeIn(_)
FreeIn(n) ==
    CASE n.kind = "Variable" -> {n.name}
      [] n.kind = "Lambda" ->
            FreeIn(n.expr) \ {n.varList[i].name : i \in 1..Len(n.varList)}
      [] n.kind = "Letrec" ->
            (FreeIn(n.expr)
                \cup UNION {FreeIn(n.varExprList[i][2]) : i \in 1..Len(n.varExprList)})
            \ {n.varExprList[i][1].name : i \in 1..Len(n.varExprList)}
      [] n.kind = "At" -> FreeIn(n.expr)
      [] OTHER -> UNION {FreeIn(Children(n)[c]) : c \in 1..Len(Children(n))}

\* C35, amended: after static analysis the freeVars set of every expression
\* node is the set of identifiers that occur free in it (a Variable its own
\* name, a Lambda its body's minus its parameters, a Letrec its right-hand
\* sides' and body's minus its bound names, an At its closure expression's
\* alone, any other node the union of its children's), and the freeVars set
\* of a parameter node, a binding-name node and the name node of an At is
\* empty.
C35_FreeVarsOfExpressions ==
    \A path \in NodePaths(prog, <<>>) :
        freeVars(path) = IF IsNameNode(path) THEN {} ELSE FreeIn(NodeAt(prog, path))

\* letrec (make lambda (x) lambda () x) (@ x (make 7)) has been analysed and
\* constructed: the inner Lambda has x, the outer Lambda and the program
\* nothing, the At has make but not x, and the nodes of the names make and x
\* have nothing
C35_Witness ==
    /\ prog = MakeProgram /\ m[2].phase = "live"
    /\ freeVars(<<2, 2>>) = {"x"} /\ freeVars(<<2>>) = {} /\ freeVars(<<>>) = {}
    /\ freeVars(<<3>>) = {"make"} /\ freeVars(<<3, 2, 1>>) = {"make"}
    /\ freeVars(<<1>>) = {} /\ freeVars(<<2, 1>>) = {} /\ freeVars(<<3, 1>>) = {}
    /\ NodeAt(prog, <<2, 1>>).kind = "Variable" /\ NodeAt(prog, <<3, 1>>).name = "x"

(* ---- C36 ---- *)

\* the Closures of State i that are still on the heap after the action
KeptClosures(i) ==
    {l \in 0..(Len(m[i].heap) - 1) :
        /\ HeapAt(m[i], l).tag = "Closure"
        /\ (i = 1 /\ gcs' # gcs) => l \in Survivors(Moved(i), Len(m'[i].heap))}

\* the captured env of the Closure at l has after the action the names and
\* (renamed by a collection) the Locations it had
CapturedEnvKept(i, l) ==
    /\ HeapAt(m'[i], reloc(Moved(i), l)).tag = "Closure"
    /\ HeapAt(m'[i], reloc(Moved(i), l)).env = RelocEnv(Moved(i), HeapAt(m[i], l).env)

\* a call step starts the body in a new env that begins with the bindings the
\* called Closure captured
CallStartsFromCaptured(i) ==
    (AtCallStep(m[i]) /\ m'[i].ret = "true" /\ (i = 1 => gcs' = gcs))
    => LET callee == HeapAt(m[i], Top(m[i]).local[1])
           env == envStore'[Top(m'[i]).env]
       IN  /\ Top(m'[i]).frame /\ Top(m'[i]).env \notin DOMAIN envStore
           /\ Len(env) = Len(callee.env) + Len(Node(callee.fun).varList)
           /\ SubSeq(env, 1, Len(callee.env)) = callee.env

\* C36 as stated: once a Closure is allocated, the names of its captured env
\* and the Values its bindings denote never change but for the renaming of
\* indices by a collection, whatever Letrecs and calls do.
C36_CapturedValuesFixed ==
    [][\A i \in {1, 2} :
        (m[i].phase = "live" /\ m'[i].phase = "live")
        => /\ CallStartsFromCaptured(i)
           /\ \A l \in KeptClosures(i) :
                /\ CapturedEnvKept(i, l)
                /\ \A b \in 1..Len(HeapAt(m[i], l).env) :
                    LET loc == HeapAt(m[i], l).env[b][2]
                    IN  HeapAt(m'[i], reloc(Moved(i), loc))
                            = RelocValue(Moved(i), HeapAt(m[i], loc))]_vars

\* C36, amended: once a Closure is allocated, the names and (up to the
\* renaming of indices by a collection) the Locations of its captured env
\* never change, neither when a Letrec extends or shrinks the defining env
\* nor when the Closure is called: a call starts the body in a new env that
\* begins with a copy of the captured bindings. The Value a captured binding
\* denotes changes only when the binding names a slot a Letrec has reserved
\* and that Letrec stores the result of the right-hand side there, once.
C36_CapturedByValue ==
    [][\A i \in {1, 2} :
        (m[i].phase = "live" /\ m'[i].phase = "live")
        => /\ CallStartsFromCaptured(i)
           /\ \A l \in KeptClosures(i) :
                /\ CapturedEnvKept(i, l)
                /\ \A b \in 1..Len(HeapAt(m[i], l).env) :
                    LET loc == HeapAt(m[i], l).env[b][2]
                    IN  \/ HeapAt(m'[i], reloc(Moved(i), loc))
                                = RelocValue(Moved(i), HeapAt(m[i], loc))
                        \/ /\ LetrecOverwrites(m[i], loc)
                           /\ HeapAt(m'[i], reloc(Moved(i), loc))
                                = RelocValue(Moved(i), HeapAt(m[i], m[i].resultLoc))]_vars

\* in letrec (x 1 f lambda () x) letrec (x 2) (f) the Closure f is being
\* called after the inner Letrec has added its x to the defining env: the
\* body runs in an env of its own holding the x that f captured, which is 1
C36_Witness ==
    /\ prog = ScopeProgram /\ Running(m[2]) /\ Top(m[2]).frame
    /\ Len(m[2].stack) > 1
    /\ NameSeq(Env(m[2], Len(m[2].stack))) = <<"x">>
    /\ NameSeq(Env(m[2], 1)) = <<"x", "f", "x">>
    /\ HeapAt(m[2], Env(m[2], Len(m[2].stack))[1][2]) = Integer(1)
    /\ Env(m[2], Len(m[2].stack))[1][2] = Env(m[2], 1)[1][2]

(* ---- C37 ---- *)

\* C37: whenever a loop iteration of execute() runs a collection, the step
\* before it has left resultLoc assigned, so that the mark phase reads as a
\* root a Location some completed step stored there.
C37_CollectsAfterResult ==
    [][(Running(m[1]) /\ Running(m[2])
            /\ PreGc.m.ret = "true" /\ Len(PreGc.m.heap) > gc_threshold)
        => PreGc.m.resultLoc # Uninit]_vars

(* ---- C38 ---- *)

\* State i is about to run the step() that dispatches an .eval call
EvalDispatch(i) ==
    /\ Running(m[i])
    /\ IF Top(m[i]).expr = NullExpr THEN FALSE
       ELSE /\ Node(Top(m[i]).expr).kind = "IntrinsicCall"
            /\ Node(Top(m[i]).expr).intrinsic = ".eval"
            /\ Top(m[i]).pc >= Len(Node(Top(m[i]).expr).argList)
            /\ typecheck(m[i], <<"String">>, IntrinsicArgs(m[i]))

\* the State that .eval call constructs, when its execute() has returned
EvalInner(i) ==
    execute(Construct(parse[HeapAt(m[i], IntrinsicArgs(m[i])[1]).value], m[i].expr + 2, 1),
            << <<>> >>)

\* C38: the value .eval stores in the outer heap is self-contained in the outer
\* State: when it is a Closure, the AST its Lambda reference leads into is alive
\* after the step, and every Location of its captured env is a slot of the outer
\* heap that holds the value the binding had in the State .eval ran.
C38_EvalResultSelfContained ==
    [][\A i \in {1, 2} :
          (EvalDispatch(i) /\ m'[i].ret = "true")
              => LET v == HeapAt(m'[i], m'[i].resultLoc)
                 IN  v.tag = "Closure" =>
                        /\ asts'[v.fun.ast].alive
                        /\ \A k \in 1..Len(v.env) :
                              /\ InHeap(m'[i], v.env[k][2])
                              /\ HeapAt(m'[i], v.env[k][2]) = HeapAt(EvalInner(i), v.env[k][2])]_vars

(* ---- C39 ---- *)

\* C39: a step() that raises a runtime error leaves the heap (size and
\* contents), resultLoc and the stack depth as they were before the step: the
\* layers below the top one, the top layer's env, expr and frame, and the
\* bindings of every Env on the stack are unchanged; only the pc and the local
\* of the top layer may differ.
C39_ErrorStepLeavesState ==
    [][\A i \in {1, 2} :
          (Running(m[i]) /\ m'[i].phase = "live" /\ m'[i].ret = "error")
              => /\ m'[i].heap = m[i].heap
                 /\ m'[i].resultLoc = m[i].resultLoc
                 /\ m'[i].numLiterals = m[i].numLiterals
                 /\ Len(m'[i].stack) = Len(m[i].stack)
                 /\ \A k \in 1..(Len(m[i].stack) - 1) : m'[i].stack[k] = m[i].stack[k]
                 /\ Top(m'[i]).env = Top(m[i]).env
                 /\ Top(m'[i]).expr = Top(m[i]).expr
                 /\ Top(m'[i]).frame = Top(m[i]).frame
                 /\ \A k \in 1..Len(m[i].stack) :
                        envStore'[m[i].stack[k].env] = envStore[m[i].stack[k].env]]_vars

\* a call or an intrinsic dispatch has raised its error after the layer had
\* recorded Locations in local and moved its pc, with values allocated by
\* earlier steps on the heap
C39_Witness ==
    /\ m[2].phase = "live" /\ m[2].ret = "error"
    /\ Top(m[2]).expr # NullExpr
    /\ Top(m[2]).pc > 0 /\ Top(m[2]).local # <<>>
    /\ Len(m[2].heap) > m[2].numLiterals
    /\ m[2].resultLoc # Uninit

====
